---------------------------- MODULE Spec2Model ----------------------------
(***************************************************************************)
(* A model of the WIKAI pattern store (src/wikai/librarian.py), of its     *)
(* passive Observer (src/wikai/observer.py) and of the file-backed         *)
(* functions of the hosted application (src/app.py).                       *)
(*                                                                         *)
(* Conventions.                                                            *)
(*  - A Python str that the code inspects (title, axiom, abstract, tags,   *)
(*    event type, search text) is a sequence of one-character strings.     *)
(*    Opaque values the code only stores (origin, mechanism, the elements  *)
(*    of reasoning_chain) are TLA+ strings.                                *)
(*  - A Python dict (keyword arguments, an event, a JSON object, metrics)  *)
(*    is a function whose DOMAIN is the set of keys present; a keyword     *)
(*    argument left out (or passed as None) is a key not in the DOMAIN.    *)
(*  - Stability and fitness values are integers counting tenths: 0.8 is 8. *)
(*  - A timestamp is the clock value it was taken at; 0 stands for the     *)
(*    empty string, which sorts before every ISO timestamp.                *)
(*  - sha256(...)[:16] is modelled as collision-free: the digest of a text *)
(*    is the text itself.                                                  *)
(*  - An event field holding a value of the wrong Python type (a stability *)
(*    float() rejects, a title or event type that is no str, metrics that  *)
(*    are no dict) keeps a placeholder of the right type in the event, and *)
(*    the event's key "illtyped" holds the set of such fields.             *)
(***************************************************************************)
EXTENDS Integers, Sequences, FiniteSets, TLC

VARIABLES
    files,            \* the patterns directory: file name -> file body
    cache,            \* WIKAILibrarian._cache: the patterns, in insertion order
    next_id,          \* WIKAILibrarian._next_id
    now,              \* the wall clock read by datetime.utcnow()
    auto_capture,     \* WIKAIObserver.auto_capture
    stability_threshold, \* WIKAIObserver.stability_threshold, in tenths
    candidates,       \* WIKAIObserver.candidates: hash -> candidate
    captured_hashes,  \* WIKAIObserver.captured_hashes
    stats,            \* WIKAIObserver.stats
    event_buffer,     \* WIKAIObserver.event_buffer: the arrival numbers of the events it holds
    last,             \* the last call: its name, arguments and outcome
    issued,           \* history: the IDs this Store object auto-allocated and returned, in call order
    written,          \* history: every ID ever written to the directory
    seen,             \* history: (title, axiom) -> stabilities of its convergence observations
    promoted,         \* history: the (title, axiom) pairs this Observer captured from observe
    inflight,         \* api_submit requests between get_next_id and save_pattern: worker -> entry
    calls             \* number of calls made so far

vars == <<files, cache, next_id, now, auto_capture, stability_threshold, candidates,
          captured_hashes, stats, event_buffer, last, issued, written, seen, promoted, inflight,
          calls>>

-----------------------------------------------------------------------------
(* Bounds of the model *)

MaxCalls == 4
MaxClock == 2

\* the capacity of the Observer's event buffer, deque(maxlen=1000), scaled down
\* so that the calls of a run fill it
BufferCapacity == 2

-----------------------------------------------------------------------------
(* Python dict helpers *)

Has(d, k) == k \in DOMAIN d

\* dict.get(k, default)
Get(d, k, default) == IF k \in DOMAIN d THEN d[k] ELSE default

EmptyDict == [k \in {} |-> 0]

\* d with key k set to v
Put(d, k, v) == [x \in DOMAIN d \cup {k} |-> IF x = k THEN v ELSE d[x]]

\* d without key k
Del(d, k) == [x \in DOMAIN d \ {k} |-> d[x]]

\* the dict built from a sequence of <<key, value>> pairs
RECURSIVE DictOf(_)
DictOf(kvs) ==
    IF Len(kvs) = 0 THEN EmptyDict
    ELSE Put(DictOf(SubSeq(kvs, 1, Len(kvs) - 1)), kvs[Len(kvs)][1], kvs[Len(kvs)][2])

\* float('nan'), which json.loads('NaN') and float('nan') give: a value that
\* stands outside the order of the numbers
NaN == 999

\* a >= b on floats: False whenever either side is NaN
FloatGe(a, b) == a # NaN /\ b # NaN /\ a >= b

\* max(a, b): a unless b > a, so that a NaN on either side leaves a
Max(a, b) == IF FloatGe(b, a) /\ b # a THEN b ELSE a

Min(a, b) == IF a <= b THEN a ELSE b

-----------------------------------------------------------------------------
(* Text *)

UpperChars == <<"A","B","C","D","E","F","G","H","I","J","K","L","M",
                "N","O","P","Q","R","S","T","U","V","W","X","Y","Z">>

LowerChars == <<"a","b","c","d","e","f","g","h","i","j","k","l","m",
                "n","o","p","q","r","s","t","u","v","w","x","y","z">>

DigitChars == <<"0","1","2","3","4","5","6","7","8","9">>

Range(s) == {s[i] : i \in DOMAIN s}

\* the lower-case letter of each upper-case letter
LowerOf == [c \in Range(UpperChars) |->
              LowerChars[CHOOSE i \in DOMAIN UpperChars : UpperChars[i] = c]]

\* str.lower() on one character
LowerChar(c) == IF c \in DOMAIN LowerOf THEN LowerOf[c] ELSE c

\* str.lower()
Lower(s) == [i \in DOMAIN s |-> LowerChar(s[i])]

SlugChars == Range(LowerChars) \cup Range(DigitChars)

\* a character of the class [a-z0-9]
IsSlugChar(c) == c \in SlugChars

\* needle in hay (Python substring test)
Contains(hay, needle) ==
    \E i \in 0..(Len(hay) - Len(needle)) :
        \A j \in 1..Len(needle) : hay[i + j] = needle[j]

\* s[:n]
Prefix(s, n) == SubSeq(s, 1, Min(n, Len(s)))

-----------------------------------------------------------------------------
(* Pattern IDs *)

IdWidth == 4

IdPrefix == <<"W", "I", "K", "A", "I", "_">>

Digits == Range(DigitChars)

IsDigit(c) == c \in Digits

\* the value of each decimal digit
DigitValue == [c \in Digits |-> (CHOOSE i \in DOMAIN DigitChars : DigitChars[i] = c) - 1]

DigitOf(c) == DigitValue[c]

RECURSIVE DecDigits(_)
\* str(n) for n >= 0
DecDigits(n) ==
    IF n < 10 THEN <<DigitChars[n + 1]>>
    ELSE Append(DecDigits(n \div 10), DigitChars[(n % 10) + 1])

RECURSIVE ZeroPad(_, _)
\* the digits d left-padded with zeros to width w
ZeroPad(d, w) == IF Len(d) >= w THEN d ELSE ZeroPad(<<"0">> \o d, w)

\* f"WIKAI_{n:04d}"
FormatId(n) == IdPrefix \o ZeroPad(DecDigits(n), IdWidth)

\* s.startswith(pre)
StartsWith(s, pre) == Len(s) >= Len(pre) /\ SubSeq(s, 1, Len(pre)) = pre

RECURSIVE UpToSep(_)
\* the text before the first "_" of s (all of s when it has none)
UpToSep(s) ==
    IF Len(s) = 0 \/ Head(s) = "_" THEN <<>> ELSE <<Head(s)>> \o UpToSep(Tail(s))

\* s.split("_")[1] for a text that starts with "WIKAI_"
SecondPart(s) == UpToSep(SubSeq(s, Len(IdPrefix) + 1, Len(s)))

RECURSIVE DigitsValue(_)
\* int(d) for a non-empty digit string
DigitsValue(d) ==
    IF Len(d) = 0 THEN 0
    ELSE 10 * DigitsValue(SubSeq(d, 1, Len(d) - 1)) + DigitOf(d[Len(d)])

\* whether the ID counts for the auto-increment scan: it starts with "WIKAI_"
\* and int() accepts the part after it
IdCounts(id) ==
    /\ StartsWith(id, IdPrefix)
    /\ Len(SecondPart(id)) > 0
    /\ \A i \in DOMAIN SecondPart(id) : IsDigit(SecondPart(id)[i])

\* int(pattern.id.split("_")[1])
IdNumber(id) == DigitsValue(SecondPart(id))

-----------------------------------------------------------------------------
(* WIKAIPattern and its on-disk form *)

SlugMax == 50

RECURSIVE SubRuns(_, _)
\* re.sub(r'[^a-z0-9]+', '_', s): every maximal run of other characters
\* becomes one "_"; inRun tells whether the previous character was in a run
SubRuns(s, inRun) ==
    IF Len(s) = 0 THEN <<>>
    ELSE IF IsSlugChar(Head(s)) THEN <<Head(s)>> \o SubRuns(Tail(s), FALSE)
    ELSE IF inRun THEN SubRuns(Tail(s), TRUE)
    ELSE <<"_">> \o SubRuns(Tail(s), TRUE)

RECURSIVE StripLeft(_)
StripLeft(s) == IF Len(s) > 0 /\ Head(s) = "_" THEN StripLeft(Tail(s)) ELSE s

RECURSIVE StripRight(_)
StripRight(s) ==
    IF Len(s) > 0 /\ s[Len(s)] = "_" THEN StripRight(SubSeq(s, 1, Len(s) - 1)) ELSE s

\* WIKAILibrarian._slugify
Slugify(text) == Prefix(StripRight(StripLeft(SubRuns(Lower(text), FALSE))), SlugMax)

JsonExt == <<".", "j", "s", "o", "n">>

\* f"{pattern_id}_{slug}.json"
Filename(id, title) == id \o <<"_">> \o Slugify(title) \o JsonExt

PatternKeys == {"id", "title", "axiom", "origin", "timestamp", "abstract",
                "mechanism", "reasoning_chain", "metrics", "tags", "data"}

\* WIKAIPattern.to_dict
ToDict(p) == [k \in PatternKeys |-> p[k]]

\* WIKAIPattern.from_dict; "data" keeps the whole JSON object
FromDict(d) ==
    [id              |-> Get(d, "id", <<>>),
     title           |-> Get(d, "title", <<"U","n","t","i","t","l","e","d">>),
     axiom           |-> Get(d, "axiom", <<>>),
     origin          |-> Get(d, "origin", "unknown"),
     timestamp       |-> Get(d, "timestamp", 0),
     abstract        |-> Get(d, "abstract", <<>>),
     mechanism       |-> Get(d, "mechanism", "{}"),
     reasoning_chain |-> Get(d, "reasoning_chain", <<>>),
     metrics         |-> Get(d, "metrics", EmptyDict),
     tags            |-> Get(d, "tags", <<>>),
     data            |-> d]

\* WIKAIPattern.stability_score
StabilityScore(p) == Get(p.metrics, "stability_score", 0)

\* a file body holding a JSON object
JsonFile(obj) == [kind |-> "json", obj |-> obj]

\* the files json.load and from_dict accept
IsEntryFile(body) == body.kind = "json"

-----------------------------------------------------------------------------
(* WIKAILibrarian *)

\* The cache is a Python dict keyed by pattern.id, which keeps insertion
\* order: a sequence of patterns with pairwise distinct ids.

\* self._cache[p.id] = p
CachePut(c, p) ==
    IF \E i \in DOMAIN c : c[i].id = p.id
    THEN [i \in DOMAIN c |-> IF c[i].id = p.id THEN p ELSE c[i]]
    ELSE Append(c, p)

CacheIds(c) == {c[i].id : i \in DOMAIN c}

\* WIKAILibrarian.get: <<p>> for the pattern found, <<>> for None
LibGet(c, id) ==
    IF id \in CacheIds(c) THEN <<c[CHOOSE i \in DOMAIN c : c[i].id = id]>> ELSE <<>>

\* WIKAILibrarian.list_all
ListAll(c) == c

\* WIKAILibrarian._generate_id: the ID built from the counter
GenerateId(n) == FormatId(n)

\* _generate_id that forgets to advance the counter
BumpNextId_Forgotten(n) == n

\* the counter after _generate_id
BumpNextId(n) == n + 1

\* a capture that does not pass origin on to the pattern
BuildPattern_OriginDropped(args, id, t) ==
    [id              |-> id,
     title           |-> args["title"],
     axiom           |-> args["axiom"],
     origin          |-> "unknown",
     timestamp       |-> t,
     abstract        |-> Get(args, "abstract", <<>>),
     mechanism       |-> Get(args, "mechanism", "{}"),
     reasoning_chain |-> Get(args, "reasoning_chain", <<>>),
     metrics         |-> Get(args, "metrics", EmptyDict),
     tags            |-> Get(args, "tags", <<>>),
     data            |-> EmptyDict]

\* the WIKAIPattern capture builds from its keyword arguments, at time t
BuildPattern(args, id, t) ==
    [id              |-> id,
     title           |-> args["title"],
     axiom           |-> args["axiom"],
     origin          |-> Get(args, "origin", "unknown"),
     timestamp       |-> t,
     abstract        |-> Get(args, "abstract", <<>>),
     mechanism       |-> Get(args, "mechanism", "{}"),
     reasoning_chain |-> Get(args, "reasoning_chain", <<>>),
     metrics         |-> Get(args, "metrics", EmptyDict),
     tags            |-> Get(args, "tags", <<>>),
     data            |-> EmptyDict]

\* capture raises TypeError before doing anything when a required
\* positional argument is left out
CaptureRaises(args) == ~Has(args, "title") \/ ~Has(args, "axiom")

\* the ID capture uses
CaptureId(args) ==
    IF Has(args, "pattern_id") THEN args["pattern_id"] ELSE GenerateId(next_id)

\* WIKAILibrarian.capture(**args) at time t, for arguments it accepts:
\* allocate, build, write the file, update the cache
LibCapture(args, t) ==
    LET id == CaptureId(args)
        p  == BuildPattern(args, id, t)
    IN  /\ next_id' = IF Has(args, "pattern_id") THEN next_id ELSE BumpNextId(next_id)
        /\ files' = Put(files, Filename(id, args["title"]), JsonFile(ToDict(p)))
        /\ cache' = CachePut(cache, p)
        /\ now' = t
        /\ issued' = IF Has(args, "pattern_id") THEN issued ELSE Append(issued, id)
        /\ written' = written \cup {id}

\* a mechanism holding a value json cannot encode, such as {"f": object()}
NotJson == "{object()}"

\* json.dump(pattern.to_dict(), f) raises TypeError part-way
Unserializable(args) == Get(args, "mechanism", "{}") = NotJson

\* WIKAILibrarian.capture(**args) at time t when json.dump raises: the ID is
\* allocated, open(filepath, 'w') has created or truncated the file and the
\* text before the offending value is in it; the cache is not reached
LibCaptureFails(args, t) ==
    /\ next_id' = IF Has(args, "pattern_id") THEN next_id ELSE BumpNextId(next_id)
    /\ files' = Put(files, Filename(CaptureId(args), args["title"]), [kind |-> "partial"])
    /\ now' = t
    /\ UNCHANGED <<cache, issued, written>>

\* the clock values a call may read
ClockReads == now..Min(now + 1, MaxClock)


\* the orders in which glob may yield the names of S
Orders(S) ==
    {o \in [1..Cardinality(S) -> S] : \A i, j \in DOMAIN o : i # j => o[i] # o[j]}

RECURSIVE ScanFold(_, _, _)
\* the loop of _scan_patterns over the file names in order o: a file that
\* cannot be opened, parsed or converted is skipped
ScanFold(c, fs, o) ==
    IF Len(o) = 0 THEN c
    ELSE ScanFold(IF IsEntryFile(fs[Head(o)])
                  THEN CachePut(c, FromDict(fs[Head(o)].obj))
                  ELSE c,
                  fs, Tail(o))

\* the caches _scan_patterns may leave, starting from cache c
ScanOutcomes(c, fs) == {ScanFold(c, fs, o) : o \in Orders(DOMAIN fs)}

RECURSIVE SetMax(_)
SetMax(S) ==
    IF S = {} THEN 0
    ELSE LET x == CHOOSE x \in S : TRUE IN Max(x, SetMax(S \ {x}))

\* max_id + 1 of _scan_patterns
ScanNextId(fs) ==
    SetMax({IdNumber(FromDict(fs[n].obj).id) :
              n \in {m \in DOMAIN fs : IsEntryFile(fs[m])
                                       /\ IdCounts(FromDict(fs[m].obj).id)}}) + 1


-----------------------------------------------------------------------------
(* WIKAILibrarian.search *)

DefaultLimit == 100

SearchKeys == {"query", "tags", "min_stability", "limit"}

\* search(**args) raises TypeError for a keyword it does not have
SearchRaises(args) == ~(DOMAIN args \subseteq SearchKeys)

\* f"{pattern.title} {pattern.axiom} {pattern.abstract}".lower()
Searchable(p) == Lower(p.title \o <<" ">> \o p.axiom \o <<" ">> \o p.abstract)

\* the tag filter: skipped for no tags or an empty list, else any match
TagFilterPasses(p, args) ==
    \/ Len(Get(args, "tags", <<>>)) = 0
    \/ \E i \in DOMAIN args["tags"] : args["tags"][i] \in Range(p.tags)

\* the stability filter, min_stability defaulting to 0.0
StabilityFilterPasses(p, args) == ~(StabilityScore(p) < Get(args, "min_stability", 0))

\* the text filter: skipped for no query or an empty one
TextFilterPasses(p, args) ==
    \/ Len(Get(args, "query", <<>>)) = 0
    \/ Contains(Searchable(p), Lower(args["query"]))

\* whether the loop body of search appends pattern p
SearchKeeps(p, args) ==
    /\ TagFilterPasses(p, args)
    /\ StabilityFilterPasses(p, args)
    /\ TextFilterPasses(p, args)

RECURSIVE SearchLoop(_, _, _)
\* the loop of search over the cache values c still to visit; the length
\* test comes after the append
SearchLoop(c, args, results) ==
    IF Len(c) = 0 THEN results
    ELSE IF ~SearchKeeps(Head(c), args) THEN SearchLoop(Tail(c), args, results)
    ELSE IF Len(results) + 1 >= Get(args, "limit", DefaultLimit)
         THEN Append(results, Head(c))
         ELSE SearchLoop(Tail(c), args, Append(results, Head(c)))

\* WIKAILibrarian.search(**args) for keywords it accepts
LibSearch(c, args) == SearchLoop(c, args, <<>>)

-----------------------------------------------------------------------------
(* WIKAIObserver *)

\* the default of stability_threshold, 0.8, in tenths
StabilityThreshold == 8

\* the number of observations the promotion branch of _add_candidate asks for
PromoteObservations == 3

\* system_name, the origin of what the Observer captures
SystemName == "unknown"

ConvergenceKeywords ==
    { <<"c", "o", "n", "v", "e", "r", "g", "e">>,
      <<"s", "t", "a", "b", "l", "e">>,
      <<"l", "o", "c", "k">>,
      <<"c", "r", "y", "s", "t", "a", "l", "l", "i", "z", "e">>,
      <<"e", "m", "e", "r", "g", "e">>,
      <<"s", "y", "n", "t", "h", "e", "s", "i", "s">>,
      <<"e", "q", "u", "i", "l", "i", "b", "r", "i", "u", "m">>,
      <<"s", "o", "l", "u", "t", "i", "o", "n">> }

\* the field of the event holds a value of the wrong type
Bad(data, field) == Has(data, "illtyped") /\ field \in data["illtyped"]

\* key in data and isinstance(data[key], dict) and sub in data[key]
HasIn(data, key, sub) == Has(data, key) /\ ~Bad(data, key) /\ Has(data[key], sub)

\* a buffer that turns the new event away when it is full
BufferAppend_KeepOldest(buf, e) ==
    IF Len(buf) >= BufferCapacity THEN buf ELSE Append(buf, e)

\* self.event_buffer.append(event) on a deque(maxlen=BufferCapacity): a full
\* deque discards its oldest item. An ObservedEvent is identified by its
\* arrival number, the value of stats["events_observed"] when it is recorded.
BufferAppend(buf, e) ==
    IF Len(buf) >= BufferCapacity THEN Append(Tail(buf), e) ELSE Append(buf, e)

\* an extraction that asks for health_score before the top-level stability
ExtractStability_HealthFirst(data) ==
    IF Has(data, "health_score") THEN data["health_score"]
    ELSE IF Has(data, "stability") THEN data["stability"]
    ELSE IF Has(data, "stability_score") THEN data["stability_score"]
    ELSE IF HasIn(data, "metrics", "stability") THEN data["metrics"]["stability"]
    ELSE IF HasIn(data, "metrics", "stability_score") THEN data["metrics"]["stability_score"]
    ELSE IF Has(data, "coherence") THEN data["coherence"]
    ELSE IF HasIn(data, "components", "coherence") THEN data["components"]["coherence"]
    ELSE IF HasIn(data, "components", "stability") THEN data["components"]["stability"]
    ELSE IF Has(data, "loss") THEN 10 - data["loss"]
    ELSE 0

\* WIKAIObserver._extract_stability
ExtractStability(data) ==
    IF Has(data, "stability") THEN data["stability"]
    ELSE IF Has(data, "stability_score") THEN data["stability_score"]
    ELSE IF HasIn(data, "metrics", "stability") THEN data["metrics"]["stability"]
    ELSE IF HasIn(data, "metrics", "stability_score") THEN data["metrics"]["stability_score"]
    ELSE IF Has(data, "health_score") THEN data["health_score"]
    ELSE IF Has(data, "coherence") THEN data["coherence"]
    ELSE IF HasIn(data, "components", "coherence") THEN data["components"]["coherence"]
    ELSE IF HasIn(data, "components", "stability") THEN data["components"]["stability"]
    ELSE IF Has(data, "loss")
         THEN IF data["loss"] = NaN THEN NaN ELSE 10 - data["loss"]
    ELSE 0

\* the float(...) that _extract_stability reaches raises ValueError or TypeError
StabilityRaises(data) ==
    IF Has(data, "stability") THEN Bad(data, "stability")
    ELSE IF Has(data, "stability_score") THEN Bad(data, "stability_score")
    ELSE IF HasIn(data, "metrics", "stability") THEN Bad(data, "metrics.stability")
    ELSE IF HasIn(data, "metrics", "stability_score") THEN Bad(data, "metrics.stability_score")
    ELSE IF Has(data, "health_score") THEN Bad(data, "health_score")
    ELSE IF Has(data, "coherence") THEN Bad(data, "coherence")
    ELSE IF HasIn(data, "components", "coherence") THEN Bad(data, "components.coherence")
    ELSE IF HasIn(data, "components", "stability") THEN Bad(data, "components.stability")
    ELSE IF Has(data, "loss") THEN Bad(data, "loss")
    ELSE FALSE

\* the float(...) that _extract_fitness reaches raises
FitnessRaises(data) ==
    IF Has(data, "fitness_delta") THEN Bad(data, "fitness_delta")
    ELSE IF Has(data, "fitness") THEN Bad(data, "fitness")
    ELSE IF HasIn(data, "metrics", "fitness_delta") THEN Bad(data, "metrics.fitness_delta")
    ELSE IF HasIn(data, "metrics", "fitness") THEN Bad(data, "metrics.fitness")
    ELSE IF HasIn(data, "components", "adaptability") THEN Bad(data, "components.adaptability")
    ELSE FALSE

\* observe raises before it reaches _handle_convergence: in
\* _extract_stability, in title[:50] of the debug message, or in
\* event_type.lower() of _is_convergence_event
ObserveRaisesEarly(data) ==
    \/ StabilityRaises(data)
    \/ (Has(data, "title") /\ Bad(data, "title"))
    \/ (Has(data, "event") /\ Bad(data, "event"))

\* WIKAIObserver._extract_fitness
ExtractFitness(data) ==
    IF Has(data, "fitness_delta") THEN data["fitness_delta"]
    ELSE IF Has(data, "fitness") THEN data["fitness"]
    ELSE IF HasIn(data, "metrics", "fitness_delta") THEN data["metrics"]["fitness_delta"]
    ELSE IF HasIn(data, "metrics", "fitness") THEN data["metrics"]["fitness"]
    ELSE IF HasIn(data, "components", "adaptability") THEN data["components"]["adaptability"]
    ELSE 0

\* event_data.get("event", "unknown")
EventType(data) == Get(data, "event", <<"u", "n", "k", "n", "o", "w", "n">>)

\* a test that takes every event for a convergence event
IsConvergenceEvent_AnyType(data) == TRUE

\* WIKAIObserver._is_convergence_event
IsConvergenceEvent(data) ==
    LET event_type == Lower(EventType(data))
    IN  \E kw \in ConvergenceKeywords : Contains(event_type, kw)

\* WIKAIObserver._hash_pattern: the digest of f"{title}:{axiom}"
HashPattern(data) == Get(data, "title", <<>>) \o <<":">> \o Get(data, "axiom", <<>>)

\* the stability test with its comparison turned around
MeetsThreshold_Inverted(stability) == stability <= stability_threshold

\* the stability test of _handle_convergence
MeetsThreshold(stability) == FloatGe(stability, stability_threshold)

\* the candidate _add_candidate leaves for data observed with stability at
\* time t, given the candidate map cs
UpsertCandidate(cs, data, stability, t) ==
    IF HashPattern(data) \in DOMAIN cs
    THEN [cs[HashPattern(data)] EXCEPT
              !.observations = @ + 1,
              !.max_stability = Max(@, stability),
              !.last_seen = t]
    ELSE [data |-> data, observations |-> 1, max_stability |-> stability,
          first_seen |-> t, last_seen |-> t]

\* a promotion test that looks at the number of observations only
ShouldPromote_CountOnly(c) == c.observations >= PromoteObservations

\* the promotion test of _add_candidate on an updated candidate
ShouldPromote(c) ==
    c.observations >= PromoteObservations /\ FloatGe(c.max_stability, stability_threshold)

\* f"Pattern_{int(time.time())}"
PatternTitle(t) == <<"P", "a", "t", "t", "e", "r", "n", "_">> \o DecDigits(t)

\* the arguments _capture_pattern passes to librarian.capture
ObserverCaptureArgs(data, stability, t) ==
    DictOf(<< <<"title", Get(data, "title", PatternTitle(t))>>,
              <<"axiom", Get(data, "axiom", Get(data, "description", <<>>))>>,
              <<"abstract", Get(data, "abstract", <<>>)>>,
              <<"mechanism", Get(data, "mechanism", "{}")>>,
              <<"reasoning_chain", Get(data, "reasoning_chain", <<>>)>>,
              <<"metrics", DictOf(<< <<"stability_score", stability>>,
                                     <<"fitness_delta", ExtractFitness(data)>> >>)>>,
              <<"tags", Get(data, "tags", <<>>)>>,
              <<"origin", SystemName>> >>)

\* the arguments force_capture passes to librarian.capture
ForceCaptureArgs(data) ==
    DictOf(<< <<"title", Get(data, "title", <<"M", "a", "n", "u", "a", "l", " ", "C", "a", "p", "t", "u", "r", "e">>)>>,
              <<"axiom", Get(data, "axiom", <<>>)>>,
              <<"abstract", Get(data, "abstract", <<>>)>>,
              <<"mechanism", Get(data, "mechanism", "{}")>>,
              <<"metrics", DictOf(<< <<"stability_score", ExtractStability(data)>> >>)>>,
              <<"tags", Get(data, "tags", <<>>)>>,
              <<"origin", SystemName>> >>)

-----------------------------------------------------------------------------
(* The hosted application's storage functions (app.py) *)

\* the characters of the model in code-point order
CodePointOrder ==
    <<" ", ".">> \o DigitChars \o <<":">> \o UpperChars \o <<"_">> \o LowerChars

CodePoint == [c \in Range(CodePointOrder) |->
                CHOOSE i \in DOMAIN CodePointOrder : CodePointOrder[i] = c]

RECURSIVE StrLess(_, _)
\* a < b on Python strings
StrLess(a, b) ==
    IF Len(b) = 0 THEN FALSE
    ELSE IF Len(a) = 0 THEN TRUE
    ELSE IF Head(a) = Head(b) THEN StrLess(Tail(a), Tail(b))
    ELSE CodePoint[Head(a)] < CodePoint[Head(b)]

\* the sort key of load_patterns, compared: key(p) < key(q)
SortKeyLess(p, q) ==
    \/ Get(p, "timestamp", 0) < Get(q, "timestamp", 0)
    \/ /\ Get(p, "timestamp", 0) = Get(q, "timestamp", 0)
       /\ StrLess(Get(p, "id", <<>>), Get(q, "id", <<>>))

RECURSIVE InsertDescending(_, _)
\* p placed into the descending list l after every element whose key is not
\* smaller than its own (sorted(..., reverse=True) is stable)
InsertDescending(l, p) ==
    IF Len(l) = 0 THEN <<p>>
    ELSE IF SortKeyLess(Head(l), p) THEN <<p>> \o l
    ELSE <<Head(l)>> \o InsertDescending(Tail(l), p)

RECURSIVE SortDescending(_, _)
\* sorted(patterns, key=(timestamp, id), reverse=True), done holding the
\* elements already placed
SortDescending(l, done) ==
    IF Len(l) = 0 THEN done
    ELSE SortDescending(Tail(l), InsertDescending(done, Head(l)))

\* the files load_patterns appends: those json.load accepts
IsJsonFile(body) == body.kind \in {"json", "nonobject"}

\* load_patterns raises in its sort key when a loaded value is no dict
LoadRaises(fs) == \E n \in DOMAIN fs : fs[n].kind = "nonobject"

RECURSIVE LoadedInOrder(_, _)
\* the JSON objects of the files named in o, in that order
LoadedInOrder(fs, o) ==
    IF Len(o) = 0 THEN <<>>
    ELSE IF IsEntryFile(fs[Head(o)])
         THEN <<fs[Head(o)].obj>> \o LoadedInOrder(fs, Tail(o))
         ELSE LoadedInOrder(fs, Tail(o))

\* the lists load_patterns may return when it does not raise
LoadOutcomes(fs) ==
    {SortDescending(LoadedInOrder(fs, o), <<>>) : o \in Orders(DOMAIN fs)}

\* get_next_id on the list load_patterns returned
NextIdOf(patterns) ==
    FormatId(SetMax({IdNumber(Get(patterns[i], "id", <<>>)) :
                       i \in {j \in DOMAIN patterns :
                                IdCounts(Get(patterns[j], "id", <<>>))}}) + 1)

AppSlugMax == 30

\* the title slug of save_pattern: c if c.isalnum() else '_' over title.lower()[:30]
AppSlug(title) ==
    [i \in 1..Min(Len(title), AppSlugMax) |->
        IF IsSlugChar(LowerChar(title[i])) THEN LowerChar(title[i]) ELSE "_"]

\* the file name save_pattern writes
AppFilename(id, title) == id \o <<"_">> \o AppSlug(title) \o JsonExt

\* a hash taken over the whole entry, its id included
ContentHash_WholeEntry(entry) == <<entry["axiom"], entry["title"], entry["id"]>>

\* sha256(json.dumps({"t": title, "a": axiom}, sort_keys=True))[:16]: the
\* digest of a text that lists the axiom, then the title
ContentHash(entry) == <<entry["axiom"], entry["title"]>>

\* api_submit answers with an error, writing nothing, for a falsy title or axiom
SubmitRejects(d) ==
    \/ Len(Get(d, "title", <<>>)) = 0
    \/ Len(Get(d, "axiom", <<>>)) = 0

\* the default stability_score of api_submit, 0.8, in tenths
DefaultStability == 8

\* the default transferability of api_submit, 0.5, in tenths
DefaultTransferability == 5

\* the entry api_submit builds from the submitted dict d, before the hash
SubmittedEntry(d, id, t) ==
    DictOf(<< <<"id", id>>,
              <<"version", Get(d, "version", "1.0.0")>>,
              <<"title", d["title"]>>,
              <<"axiom", d["axiom"]>>,
              <<"abstract", Get(d, "abstract", <<>>)>>,
              <<"domain", Get(d, "domain", "General Intelligence")>>,
              <<"knowledge_type", Get(d, "knowledge_type", "Pattern")>>,
              <<"modalities", Get(d, "modalities", <<>>)>>,
              <<"origin", Get(d, "origin", "api")>>,
              <<"timestamp", t>>,
              <<"mechanism", Get(d, "mechanism", "{}")>>,
              <<"reasoning_chain", Get(d, "reasoning_chain", <<>>)>>,
              <<"causation", Get(d, "causation", "null")>>,
              <<"compatible_domains", Get(d, "compatible_domains", <<>>)>>,
              <<"prerequisites", Get(d, "prerequisites", <<>>)>>,
              <<"dependencies", Get(d, "dependencies", <<>>)>>,
              <<"contraindications", Get(d, "contraindications", <<>>)>>,
              <<"related_entries", Get(d, "related_entries", <<>>)>>,
              <<"tags", Get(d, "tags", <<>>)>>,
              <<"metrics",
                DictOf(<< <<"stability_score",
                            Get(d, "stability_score", Get(d, "stability", DefaultStability))>>,
                          <<"fitness_delta", Get(d, "fitness_delta", 0)>>,
                          <<"transferability", Get(d, "transferability", DefaultTransferability)>>,
                          <<"validation_count", Get(d, "validation_count", 0)>> >>)>> >>)

\* the entry api_submit saves: the built entry with its content_hash
HashedEntry(entry) == Put(entry, "content_hash", ContentHash(entry))

-----------------------------------------------------------------------------
(* Inputs *)

Wikai0001 == IdPrefix \o <<"0", "0", "0", "1">>
Wikai2 == IdPrefix \o <<"2">>

BaseArgs == DictOf(<< <<"title", <<"T">> >>, <<"axiom", <<"a">> >> >>)

\* the keyword arguments the model passes to WIKAILibrarian.capture
CaptureArgs ==
    { BaseArgs,
      EmptyDict,
      Del(BaseArgs, "axiom"),
      Put(BaseArgs, "title", <<>>),
      Put(BaseArgs, "axiom", <<>>),
      DictOf(<< <<"title", <<"u", ":">> >>, <<"axiom", <<"a">> >>,
                <<"tags", << <<"x">> >> >>,
                <<"metrics", DictOf(<< <<"stability_score", 9>> >>)>> >>),
      DictOf(<< <<"title", <<"t">> >>, <<"axiom", <<"a">> >>,
                <<"abstract", <<"B">> >>, <<"mechanism", "{m}">>,
                <<"reasoning_chain", <<"r1">> >>, <<"origin", "sys">>,
                <<"tags", << <<"x">>, <<"y">> >> >>,
                <<"metrics", DictOf(<< <<"stability_score", 0 - 1>>,
                                       <<"fitness_delta", 2>> >>)>> >>),
      Put(BaseArgs, "pattern_id", Wikai0001),
      Put(Put(BaseArgs, "title", <<"u", ":">>), "pattern_id", Wikai2) }

Converged == <<"c", "o", "n", "v", "e", "r", "g", "e", "d">>
StableType == <<"S", "t", "a", "b", "l", "e">>
Tick == <<"t", "i", "c", "k">>

\* a convergence event for (title, axiom) carrying a top-level stability
ConvEvent(title, axiom, stability) ==
    DictOf(<< <<"event", Converged>>, <<"title", title>>, <<"axiom", axiom>>,
              <<"stability", stability>> >>)

\* the events the model feeds to observe
ObserveEvents ==
    {ConvEvent(<<"T">>, <<"a">>, st) : st \in {6, 7, 8, 9}} \cup
    { DictOf(<< <<"event", StableType>>, <<"title", <<"u", ":">> >>, <<"axiom", <<"a">> >>,
                <<"loss", 1>>, <<"fitness", 2>>, <<"tags", << <<"x">> >> >> >>),
      DictOf(<< <<"event", Converged>>, <<"title", <<"t">> >>, <<"stability", 9>> >>),
      DictOf(<< <<"event", Tick>>, <<"title", <<"T">> >>, <<"axiom", <<"a">> >>,
                <<"stability", 9>> >>) }

\* an event with the wrongly typed fields bad
Malformed(kvs, bad) == Put(DictOf(kvs), "illtyped", bad)

\* events of unexpected shapes: no field at all; a stability that is no
\* number, at the top level and inside metrics; an event type and a title
\* that are no str; metrics that are no dict; a fitness that is no number;
\* a mechanism json cannot encode
MalformedEvents ==
    { EmptyDict,
      Malformed(<< <<"stability", 0>> >>, {"stability"}),
      Malformed(<< <<"event", Converged>>, <<"title", <<"T">> >>, <<"axiom", <<"a">> >>,
                   <<"metrics", DictOf(<< <<"stability", 0>> >>)>> >>, {"metrics.stability"}),
      Malformed(<< <<"event", <<>> >>, <<"stability", 9>> >>, {"event"}),
      Malformed(<< <<"event", Converged>>, <<"title", <<>> >>, <<"stability", 9>> >>, {"title"}),
      Malformed(<< <<"event", Converged>>, <<"title", <<"T">> >>, <<"axiom", <<"a">> >>,
                   <<"metrics", EmptyDict>> >>, {"metrics"}),
      Malformed(<< <<"event", Converged>>, <<"title", <<"T">> >>, <<"axiom", <<"a">> >>,
                   <<"stability", 9>>, <<"fitness", 0>> >>, {"fitness"}),
      DictOf(<< <<"event", Converged>>, <<"title", <<"t">> >>, <<"axiom", <<"a">> >>,
                <<"stability", 9>>, <<"mechanism", NotJson>> >>) }

\* the top-level stability fields of an event, each with a value of its own
TopStability ==
    DictOf(<< <<"stability", 1>>, <<"stability_score", 2>>, <<"health_score", 5>>,
              <<"coherence", 6>>, <<"loss", 1>> >>)

\* what an event may carry under "metrics": nothing, a value that is no
\* dict, or a dict with some of the stability fields
MetricsChoices ==
    { [kind |-> "absent", d |-> EmptyDict],
      [kind |-> "nodict", d |-> EmptyDict],
      [kind |-> "dict", d |-> EmptyDict],
      [kind |-> "dict", d |-> DictOf(<< <<"stability", 3>> >>)],
      [kind |-> "dict", d |-> DictOf(<< <<"stability_score", 4>> >>)],
      [kind |-> "dict", d |-> DictOf(<< <<"stability", 3>>, <<"stability_score", 4>> >>)] }

\* the same for "components"
ComponentsChoices ==
    { [kind |-> "absent", d |-> EmptyDict],
      [kind |-> "nodict", d |-> EmptyDict],
      [kind |-> "dict", d |-> EmptyDict],
      [kind |-> "dict", d |-> DictOf(<< <<"coherence", 7>> >>)],
      [kind |-> "dict", d |-> DictOf(<< <<"stability", 8>> >>)],
      [kind |-> "dict", d |-> DictOf(<< <<"coherence", 7>>, <<"stability", 8>> >>)] }

\* d with the nested dict of choice ch under key, a value that is no dict
\* being marked as wrongly typed
WithNested(d, key, ch) ==
    IF ch.kind = "absent" THEN d
    ELSE IF ch.kind = "nodict"
    THEN Put(Put(d, key, EmptyDict), "illtyped", Get(d, "illtyped", {}) \cup {key})
    ELSE Put(d, key, ch.d)

\* d with its health_score, if it has one, made a non-numeric value
WithBadHealth(d) ==
    IF Has(d, "health_score")
    THEN Put(d, "illtyped", Get(d, "illtyped", {}) \cup {"health_score"})
    ELSE d

\* the events the model feeds to _extract_stability: every combination of
\* the fields it looks at
ExtractEvents ==
    LET plain == { WithNested(WithNested([k \in top |-> TopStability[k]], "metrics", mt),
                              "components", cp) :
                     top \in SUBSET DOMAIN TopStability,
                     mt \in MetricsChoices, cp \in ComponentsChoices }
    IN  plain \cup {WithBadHealth(d) : d \in plain}

\* the events the model feeds to force_capture
ForceEvents ==
    { ConvEvent(<<"T">>, <<"a">>, 6),
      DictOf(<< <<"event", Tick>>, <<"title", <<"t">> >>, <<"metrics", DictOf(<< <<"stability", 0 - 2>> >>)>> >>),
      DictOf(<< <<"axiom", <<"a">> >>, <<"mechanism", "{m}">> >>) }

\* the direct captures on the Observer's librarian
DirectArgs == {BaseArgs, Put(BaseArgs, "pattern_id", Wikai0001)}

\* the dicts the model submits to api_submit
Submissions ==
    { BaseArgs,
      EmptyDict,
      Del(BaseArgs, "axiom"),
      Put(BaseArgs, "title", <<>>),
      DictOf(<< <<"title", <<"T">> >>, <<"axiom", <<"a">> >>, <<"mechanism", "{m}">>,
                <<"domain", "A">>, <<"tags", << <<"x">> >> >>, <<"stability", 9>> >>),
      DictOf(<< <<"title", <<"T">> >>, <<"axiom", <<"a">> >>, <<"mechanism", "{m}">>,
                <<"origin", "sys">> >>),
      DictOf(<< <<"title", <<"u", ":">> >>, <<"axiom", <<"a">> >>,
                <<"abstract", <<"B">> >> >>) }

\* what an out-of-band writer may leave in the directory besides entries:
\* text that is not JSON, a file that cannot be opened, JSON that is no object
JunkKinds == {"nonjson", "unreadable", "nonobject"}

JunkName(kind) == <<kind>> \o JsonExt

\* the keyword arguments the model passes to WIKAILibrarian.search
SearchArgs ==
    { EmptyDict,
      DictOf(<< <<"tags", << <<"x">> >> >> >>),
      DictOf(<< <<"tags", << <<"y">>, <<"z">> >> >> >>),
      DictOf(<< <<"min_stability", 8>> >>),
      DictOf(<< <<"query", <<"T">> >> >>),
      DictOf(<< <<"query", <<"a", " ", "b">> >>, <<"tags", << <<"x">> >> >> >>),
      DictOf(<< <<"tags", << <<"x">> >> >>, <<"min_stability", 8>> >>),
      DictOf(<< <<"domain", "A">>, <<"tags", << <<"x">> >> >> >>),
      DictOf(<< <<"limit", 1>> >>),
      DictOf(<< <<"limit", 0>> >>),
      DictOf(<< <<"query", <<"X">> >> >>) }

-----------------------------------------------------------------------------
(* State *)

NoCall == [op |-> "init", args |-> EmptyDict, ret |-> <<>>, raised |-> FALSE]

InitStats == [events_observed |-> 0, patterns_captured |-> 0,
              candidates_promoted |-> 0, candidates_rejected |-> 0]

storeVars == <<files, cache, next_id, now, issued, written>>
observerVars == <<auto_capture, stability_threshold, candidates, captured_hashes, stats,
                  event_buffer, seen, promoted>>

Init ==
    /\ files = EmptyDict
    /\ cache = <<>>
    /\ next_id = 1
    /\ now = 1
    /\ auto_capture \in BOOLEAN
    /\ stability_threshold = StabilityThreshold
    /\ candidates = EmptyDict
    /\ captured_hashes = {}
    /\ stats = InitStats
    /\ event_buffer = <<>>
    /\ last = NoCall
    /\ issued = <<>>
    /\ written = {}
    /\ seen = EmptyDict
    /\ promoted = {}
    /\ inflight = EmptyDict
    /\ calls = 0

\* the same with the Observer's auto_capture left at its default
InitDefault == Init /\ auto_capture = TRUE

-----------------------------------------------------------------------------
(* Store operations *)

\* librarian.capture(**args)
Capture(args) ==
    /\ calls < MaxCalls
    /\ calls' = calls + 1
    /\ UNCHANGED inflight
    /\ IF CaptureRaises(args)
       THEN /\ last' = [op |-> "capture", args |-> args, ret |-> <<>>, raised |-> TRUE]
            /\ UNCHANGED storeVars
       ELSE IF Unserializable(args)
       THEN /\ \E t \in ClockReads : LibCaptureFails(args, t)
            /\ last' = [op |-> "capture", args |-> args, ret |-> <<>>, raised |-> TRUE]
       ELSE /\ \E t \in ClockReads : LibCapture(args, t)
            /\ last' = [op |-> "capture", args |-> args,
                        ret |-> <<CaptureId(args)>>, raised |-> FALSE]
    /\ UNCHANGED observerVars

\* a file of the directory is deleted out-of-band
DeleteFile(name) ==
    /\ calls < MaxCalls
    /\ calls' = calls + 1
    /\ UNCHANGED inflight
    /\ name \in DOMAIN files
    /\ files' = Del(files, name)
    /\ last' = [op |-> "delete", args |-> name, ret |-> <<>>, raised |-> FALSE]
    /\ UNCHANGED <<cache, next_id, now, issued, written>>
    /\ UNCHANGED observerVars

\* a file that is no entry appears in the directory out-of-band
DropFile(kind) ==
    /\ calls < MaxCalls
    /\ calls' = calls + 1
    /\ UNCHANGED inflight
    /\ JunkName(kind) \notin DOMAIN files
    /\ files' = Put(files, JunkName(kind), [kind |-> kind])
    /\ last' = [op |-> "drop", args |-> kind, ret |-> <<>>, raised |-> FALSE]
    /\ UNCHANGED <<cache, next_id, now, issued, written>>
    /\ UNCHANGED observerVars

\* WIKAIObserver(patterns_dir), and with it WIKAILibrarian(patterns_dir),
\* over the directory as it is: a new Observer with nothing seen and a new
\* Store object with an empty cache, filled by _scan_patterns; list_all follows
Reinit ==
    /\ calls < MaxCalls
    /\ calls' = calls + 1
    /\ UNCHANGED inflight
    /\ cache' \in ScanOutcomes(<<>>, files)
    /\ next_id' = ScanNextId(files)
    /\ issued' = <<>>
    /\ candidates' = EmptyDict
    /\ captured_hashes' = {}
    /\ stats' = InitStats
    /\ event_buffer' = <<>>
    /\ seen' = EmptyDict
    /\ promoted' = {}
    /\ last' = [op |-> "init", args |-> EmptyDict, ret |-> ListAll(cache'), raised |-> FALSE]
    /\ UNCHANGED <<files, now, written, auto_capture, stability_threshold>>

-----------------------------------------------------------------------------
(* Observer operations *)

\* a capture that is not counted
CountCaptured_Forgotten(st) == st

\* self.stats["patterns_captured"] += 1
CountCaptured(st) == [st EXCEPT !.patterns_captured = @ + 1]

\* a _capture_pattern that marks the hash before it calls the librarian
MarkCaptured_BeforeCapture(hashes, h, attempted, captured) ==
    IF attempted THEN hashes \cup {h} ELSE hashes

\* the captured hashes _capture_pattern leaves: self.captured_hashes.add
\* comes after librarian.capture and is not reached when that raises
MarkCaptured(hashes, h, attempted, captured) ==
    IF captured THEN hashes \cup {h} ELSE hashes

\* the (title, axiom) pair an event is about
PairOf(data) == <<Get(data, "title", <<>>), Get(data, "axiom", <<>>)>>

\* observer.observe(data), the clock reading t
Observe(data) ==
    /\ calls < MaxCalls
    /\ calls' = calls + 1
    /\ UNCHANGED inflight
    /\ \E t \in ClockReads :
        LET early     == ObserveRaisesEarly(data)
            stability == ExtractStability(data)
            h         == HashPattern(data)
            converged == ~early /\ IsConvergenceEvent(data)
            fresh     == converged /\ h \notin captured_hashes
            direct    == fresh /\ MeetsThreshold(stability) /\ auto_capture
            upsert    == fresh /\ ~MeetsThreshold(stability)
            c         == UpsertCandidate(candidates, data, stability, t)
            promote   == upsert /\ h \in DOMAIN candidates /\ ShouldPromote(c)
            \* what _capture_pattern is called with
            capdata   == IF promote THEN c.data ELSE data
            capargs   == ObserverCaptureArgs(capdata,
                             IF promote THEN c.max_stability ELSE stability, t)
            \* _capture_pattern raises in _extract_fitness, or in librarian.capture
            fitfails  == (direct \/ promote) /\ FitnessRaises(capdata)
            dumpfails == (direct \/ promote) /\ ~fitfails /\ Unserializable(capargs)
            captured  == (direct \/ promote) /\ ~fitfails /\ ~dumpfails
        IN  /\ IF captured THEN LibCapture(capargs, t)
               ELSE IF dumpfails THEN LibCaptureFails(capargs, t)
               ELSE /\ now' = t
                    /\ UNCHANGED <<files, cache, next_id, issued, written>>
            /\ candidates' = IF promote /\ captured THEN Del(candidates, h)
                              ELSE IF upsert THEN Put(candidates, h, c)
                              ELSE candidates
            /\ captured_hashes' = MarkCaptured(captured_hashes, h, direct \/ promote, captured)
            /\ stats' = LET st == [stats EXCEPT
                                 !.events_observed = @ + 1,
                                 !.candidates_promoted =
                                     IF promote /\ captured THEN @ + 1 ELSE @]
                         IN  IF captured THEN CountCaptured(st) ELSE st
            /\ event_buffer' = BufferAppend(event_buffer, stats.events_observed + 1)
            /\ seen' = IF converged
                        THEN Put(seen, PairOf(data),
                                 Append(Get(seen, PairOf(data), <<>>), stability))
                        ELSE seen
            /\ promoted' = IF captured THEN promoted \cup {PairOf(capdata)} ELSE promoted
            /\ last' = [op |-> "observe", args |-> data, ret |-> <<>>,
                        raised |-> early \/ fitfails \/ dumpfails]
    /\ UNCHANGED <<auto_capture, stability_threshold>>

\* observer.force_capture(data)
ForceCapture(data) ==
    /\ calls < MaxCalls
    /\ calls' = calls + 1
    /\ UNCHANGED inflight
    /\ IF StabilityRaises(data)
       THEN /\ last' = [op |-> "force_capture", args |-> data, ret |-> <<>>, raised |-> TRUE]
            /\ UNCHANGED <<storeVars, stats>>
       ELSE IF Unserializable(ForceCaptureArgs(data))
       THEN /\ \E t \in ClockReads : LibCaptureFails(ForceCaptureArgs(data), t)
            /\ last' = [op |-> "force_capture", args |-> data, ret |-> <<>>, raised |-> TRUE]
            /\ UNCHANGED stats
       ELSE /\ \E t \in ClockReads : LibCapture(ForceCaptureArgs(data), t)
            /\ stats' = CountCaptured(stats)
            /\ last' = [op |-> "force_capture", args |-> data,
                        ret |-> <<GenerateId(next_id)>>, raised |-> FALSE]
    /\ UNCHANGED <<auto_capture, stability_threshold, candidates, captured_hashes, seen,
                    promoted, event_buffer>>

\* librarian.search(**args)
Search(args) ==
    /\ calls < MaxCalls
    /\ calls' = calls + 1
    /\ UNCHANGED inflight
    /\ last' = IF SearchRaises(args)
               THEN [op |-> "search", args |-> args, ret |-> <<>>, raised |-> TRUE]
               ELSE [op |-> "search", args |-> args, ret |-> LibSearch(cache, args),
                     raised |-> FALSE]
    /\ UNCHANGED storeVars
    /\ UNCHANGED observerVars

Next ==
    \/ \E args \in CaptureArgs : Capture(args)
    \/ \E name \in DOMAIN files : DeleteFile(name)
    \/ \E kind \in JunkKinds : DropFile(kind)
    \/ Reinit

Spec == InitDefault /\ [][Next]_vars

-----------------------------------------------------------------------------
(* Application operations *)

\* api_submit(json.dumps(d))
ApiSubmit(d) ==
    /\ calls < MaxCalls
    /\ calls' = calls + 1
    /\ UNCHANGED inflight
    /\ IF SubmitRejects(d)
       THEN /\ last' = [op |-> "api_submit", args |-> d, ret |-> <<"error">>,
                        raised |-> FALSE]
            /\ UNCHANGED <<files, now, issued, written>>
       ELSE IF LoadRaises(files)
       THEN /\ last' = [op |-> "api_submit", args |-> d, ret |-> <<>>, raised |-> TRUE]
            /\ UNCHANGED <<files, now, issued, written>>
       ELSE \E t \in ClockReads : \E patterns \in LoadOutcomes(files) :
              LET id == NextIdOf(patterns)
                  entry == HashedEntry(SubmittedEntry(d, id, t))
              IN  /\ files' = Put(files, AppFilename(id, entry["title"]), JsonFile(entry))
                  /\ now' = t
                  /\ issued' = Append(issued, id)
                  /\ written' = written \cup {id}
                  /\ last' = [op |-> "api_submit", args |-> d, ret |-> <<id>>,
                              raised |-> FALSE]
    /\ UNCHANGED <<cache, next_id>>
    /\ UNCHANGED observerVars

\* load_patterns(), as api_list_all and every other reader call it
LoadPatterns ==
    /\ calls < MaxCalls
    /\ calls' = calls + 1
    /\ UNCHANGED inflight
    /\ IF LoadRaises(files)
       THEN last' = [op |-> "load_patterns", args |-> EmptyDict, ret |-> <<>>,
                     raised |-> TRUE]
       ELSE \E patterns \in LoadOutcomes(files) :
              last' = [op |-> "load_patterns", args |-> EmptyDict, ret |-> patterns,
                       raised |-> FALSE]
    /\ UNCHANGED storeVars
    /\ UNCHANGED observerVars

RECURSIVE TotalStab(_)
\* total_stab of get_stats: the sum over the loaded patterns of
\* p.get('metrics', {}).get('stability_score', 0)
TotalStab(patterns) ==
    IF Len(patterns) = 0 THEN 0
    ELSE Get(Get(Head(patterns), "metrics", EmptyDict), "stability_score", 0)
         + TotalStab(Tail(patterns))

\* the answer of get_stats for the list load_patterns returned: the text
\* "No entries yet." for an empty list, else the table, of which the model
\* keeps Total Entries and the quotient behind Avg Stability
StatsOf(patterns) ==
    IF Len(patterns) = 0 THEN <<"No entries yet.">>
    ELSE << [total_entries |-> Len(patterns),
             avg_stability |-> <<TotalStab(patterns), Len(patterns)>>] >>

\* get_stats() of the application: load_patterns, then the statistics
GetStats ==
    /\ calls < MaxCalls
    /\ calls' = calls + 1
    /\ UNCHANGED inflight
    /\ IF LoadRaises(files)
       THEN last' = [op |-> "get_stats", args |-> EmptyDict, ret |-> <<>>,
                     raised |-> TRUE]
       ELSE \E patterns \in LoadOutcomes(files) :
              last' = [op |-> "get_stats", args |-> EmptyDict, ret |-> StatsOf(patterns),
                       raised |-> FALSE]
    /\ UNCHANGED storeVars
    /\ UNCHANGED observerVars

\* the request handlers that may run api_submit at the same time
Workers == {"w1", "w2"}

\* worker w runs api_submit(json.dumps(d)) up to the call of save_pattern:
\* the entry is built, its id taken from get_next_id
SubmitBegin(w, d) ==
    /\ calls < MaxCalls
    /\ calls' = calls + 1
    /\ ~Has(inflight, w)
    /\ ~SubmitRejects(d)
    /\ ~LoadRaises(files)
    /\ \E t \in ClockReads : \E patterns \in LoadOutcomes(files) :
          /\ inflight' = Put(inflight, w, HashedEntry(SubmittedEntry(d, NextIdOf(patterns), t)))
          /\ now' = t
    /\ last' = [op |-> "submit_begin", args |-> d, ret |-> <<>>, raised |-> FALSE]
    /\ UNCHANGED <<files, cache, next_id, issued, written>>
    /\ UNCHANGED observerVars

\* worker w runs the rest of api_submit: save_pattern(entry), and the answer
\* with the entry's id
SubmitSave(w) ==
    /\ Has(inflight, w)
    /\ LET entry == inflight[w]
       IN  /\ files' = Put(files, AppFilename(entry["id"], entry["title"]), JsonFile(entry))
           /\ issued' = Append(issued, entry["id"])
           /\ written' = written \cup {entry["id"]}
           /\ last' = [op |-> "api_submit", args |-> entry, ret |-> <<entry["id"]>>,
                       raised |-> FALSE]
    /\ inflight' = Del(inflight, w)
    /\ UNCHANGED <<cache, next_id, now, calls>>
    /\ UNCHANGED observerVars

NextConcurrent ==
    \/ \E w \in Workers : \E d \in Submissions : SubmitBegin(w, d)
    \/ \E w \in Workers : SubmitSave(w)

\* api_submit requests served at the same time
SpecConcurrent == InitDefault /\ [][NextConcurrent]_vars

NextApp ==
    \/ \E d \in Submissions : ApiSubmit(d)
    \/ \E name \in DOMAIN files : DeleteFile(name)
    \/ \E kind \in JunkKinds : DropFile(kind)
    \/ LoadPatterns
    \/ GetStats

SpecApp == InitDefault /\ [][NextApp]_vars

NextObserver ==
    \/ \E data \in ObserveEvents : Observe(data)
    \/ \E data \in ForceEvents : ForceCapture(data)
    \/ \E args \in DirectArgs : Capture(args)
    \/ Reinit

SpecObserver == Init /\ [][NextObserver]_vars

NextMalformed ==
    \/ \E data \in MalformedEvents \cup {ConvEvent(<<"T">>, <<"a">>, 6),
                                           ConvEvent(<<"T">>, <<"a">>, 9)} : Observe(data)
    \/ \E data \in {d \in MalformedEvents : StabilityRaises(d) \/ Has(d, "mechanism")} :
          ForceCapture(data)

\* the Observer fed events of unexpected shapes
SpecMalformed == Init /\ [][NextMalformed]_vars

\* observer._extract_stability(data)
ExtractStabilityCall(data) ==
    /\ calls < MaxCalls
    /\ calls' = calls + 1
    /\ last' = IF StabilityRaises(data)
               THEN [op |-> "_extract_stability", args |-> data, ret |-> <<>>,
                     raised |-> TRUE]
               ELSE [op |-> "_extract_stability", args |-> data,
                     ret |-> <<ExtractStability(data)>>, raised |-> FALSE]
    /\ UNCHANGED <<storeVars, observerVars, inflight>>

NextExtract == \E data \in ExtractEvents : ExtractStabilityCall(data)

\* the stability extraction applied to events of every shape
SpecExtract == InitDefault /\ [][NextExtract]_vars

\* the arguments lack a title or an axiom, or give an empty one
InvalidEntry(args) ==
    \/ Len(Get(args, "title", <<>>)) = 0
    \/ Len(Get(args, "axiom", <<>>)) = 0

\* the captures of a titled entry with an axiom that leave the ID to the Store
AutoCaptureArgs == {args \in CaptureArgs : ~Has(args, "pattern_id") /\ ~InvalidEntry(args)}

NextAuto ==
    \/ \E args \in AutoCaptureArgs : Capture(args)
    \/ \E name \in DOMAIN files : DeleteFile(name)
    \/ Reinit

\* the Store used without caller-supplied IDs
SpecAuto == InitDefault /\ [][NextAuto]_vars

\* captures of entries that json can and cannot encode, with and without a
\* caller-supplied ID
WriteArgs ==
    { BaseArgs,
      Put(BaseArgs, "mechanism", NotJson),
      Put(BaseArgs, "pattern_id", Wikai0001),
      Put(Put(BaseArgs, "pattern_id", Wikai0001), "mechanism", NotJson) }

NextWrite ==
    \/ \E args \in WriteArgs : Capture(args)
    \/ Reinit

\* the Store with captures that fail while the file is written
SpecWrite == InitDefault /\ [][NextWrite]_vars

\* an entry file written out-of-band: its name and the entry in it
ForeignName == <<"e", "x", "t">> \o JsonExt

ForeignEntry ==
    ToDict(BuildPattern(DictOf(<< <<"title", <<"F">> >>, <<"axiom", <<"b">> >>,
                                  <<"origin", "ext">> >>),
                        <<"E", "X", "T", "_", "1">>, 1))

\* an entry file appears in the directory out-of-band
AddFile ==
    /\ calls < MaxCalls
    /\ calls' = calls + 1
    /\ UNCHANGED inflight
    /\ ForeignName \notin DOMAIN files
    /\ files' = Put(files, ForeignName, JsonFile(ForeignEntry))
    /\ written' = written \cup {ForeignEntry.id}
    /\ last' = [op |-> "add", args |-> ForeignName, ret |-> <<>>, raised |-> FALSE]
    /\ UNCHANGED <<cache, next_id, now, issued>>
    /\ UNCHANGED observerVars

\* librarian._scan_patterns() on the Store object in use: the files of the
\* directory are read into the cache as it is, and the counter is set anew
Rescan ==
    /\ calls < MaxCalls
    /\ calls' = calls + 1
    /\ UNCHANGED inflight
    /\ cache' \in ScanOutcomes(cache, files)
    /\ next_id' = ScanNextId(files)
    /\ last' = [op |-> "rescan", args |-> EmptyDict, ret |-> ListAll(cache'), raised |-> FALSE]
    /\ UNCHANGED <<files, now, issued, written>>
    /\ UNCHANGED observerVars

NextRescan ==
    \/ \E args \in DirectArgs : Capture(args)
    \/ \E name \in DOMAIN files : DeleteFile(name)
    \/ \E kind \in JunkKinds : DropFile(kind)
    \/ AddFile
    \/ Rescan

\* the Store rescanned while the directory changes under it
SpecRescan == InitDefault /\ [][NextRescan]_vars

\* Python's None, among the opaque values
None == "None"

\* set(t.lower() for t in p.get('tags', []))
LowerTags(p) == {Lower(t) : t \in Range(Get(p, "tags", <<>>))}

\* the score find_related_entries gives pattern p for the target entry
RelatedScore(target, entry_id, p) ==
    (IF \/ Get(p, "id", <<>>) \in Range(Get(target, "related_entries", <<>>))
        \/ entry_id \in Range(Get(p, "related_entries", <<>>))
     THEN 10 ELSE 0)
    + 2 * Cardinality(LowerTags(target) \cap LowerTags(p))
    + (IF Get(p, "domain", None) = Get(target, "domain", "") THEN 1 ELSE 0)
    + (IF Get(p, "knowledge_type", None) = Get(target, "knowledge_type", None)
       THEN 1 ELSE 0)

RECURSIVE RelatedLoop(_, _, _)
\* the loop of find_related_entries over the patterns still to visit
RelatedLoop(patterns, target, entry_id) ==
    IF Len(patterns) = 0 THEN <<>>
    ELSE LET p     == Head(patterns)
             score == RelatedScore(target, entry_id, p)
             rest  == RelatedLoop(Tail(patterns), target, entry_id)
         IN  IF Get(p, "id", <<>>) = entry_id \/ score = 0 THEN rest
             ELSE <<[id |-> Get(p, "id", <<>>), score |-> score]>> \o rest

RECURSIVE InsertByScore(_, _)
\* x placed into the list l sorted by score descending, behind its equals
InsertByScore(l, x) ==
    IF Len(l) = 0 THEN <<x>>
    ELSE IF Head(l).score < x.score THEN <<x>> \o l
    ELSE <<Head(l)>> \o InsertByScore(Tail(l), x)

RECURSIVE SortByScore(_, _)
\* sorted(related, key=lambda x: -x['score']), a stable sort
SortByScore(l, done) ==
    IF Len(l) = 0 THEN done
    ELSE SortByScore(Tail(l), InsertByScore(done, Head(l)))

\* the length of the list find_related_entries returns at most
RelatedMax == 10

\* find_related_entries(entry_id) on the list load_patterns returned
FindRelated(patterns, entry_id) ==
    LET hits == {i \in DOMAIN patterns : Get(patterns[i], "id", <<>>) = entry_id}
    IN  IF hits = {} THEN <<>>
        ELSE LET target == patterns[CHOOSE i \in hits : \A j \in hits : i <= j]
             IN  Prefix(SortByScore(RelatedLoop(patterns, target, entry_id), <<>>),
                        RelatedMax)

\* find_related_entries(entry_id)
FindRelatedEntries(entry_id) ==
    /\ calls < MaxCalls
    /\ calls' = calls + 1
    /\ UNCHANGED inflight
    /\ IF LoadRaises(files)
       THEN last' = [op |-> "related", args |-> entry_id, ret |-> <<>>, raised |-> TRUE]
       ELSE \E patterns \in LoadOutcomes(files) :
              last' = [op |-> "related", args |-> entry_id,
                       ret |-> FindRelated(patterns, entry_id), raised |-> FALSE]
    /\ UNCHANGED storeVars
    /\ UNCHANGED observerVars

\* the dicts submitted to the application whose entries are then related
RelatedSubmissions ==
    { DictOf(<< <<"title", <<"A">> >>, <<"axiom", <<"x">> >>, <<"domain", "">>,
                <<"knowledge_type", "K1">>, <<"tags", << <<"X">> >> >> >>),
      DictOf(<< <<"title", <<"B">> >>, <<"axiom", <<"y">> >>, <<"domain", "A">>,
                <<"knowledge_type", "K1">>, <<"tags", << <<"x">>, <<"y">> >> >>,
                <<"related_entries", <<FormatId(1)>> >> >>),
      DictOf(<< <<"title", <<"C">> >>, <<"axiom", <<"z">> >> >>) }

\* the IDs the model asks related entries for
RelatedIds == {FormatId(1), FormatId(2), ForeignEntry.id, FormatId(9)}

NextRelated ==
    \/ \E d \in RelatedSubmissions : ApiSubmit(d)
    \/ \E args \in {BaseArgs} : Capture(args)
    \/ AddFile
    \/ \E id \in RelatedIds : FindRelatedEntries(id)

\* the application relating the entries of a directory that it, a Store
\* object and an out-of-band writer have written to
SpecRelated == InitDefault /\ [][NextRelated]_vars

\* librarian.list_all()
ListAllCall ==
    /\ calls < MaxCalls
    /\ calls' = calls + 1
    /\ UNCHANGED inflight
    /\ last' = [op |-> "list_all", args |-> EmptyDict, ret |-> ListAll(cache), raised |-> FALSE]
    /\ UNCHANGED storeVars
    /\ UNCHANGED observerVars

NextSearch ==
    \/ ListAllCall
    \/ \E args \in CaptureArgs : Capture(args)
    \/ \E args \in SearchArgs : Search(args)

SpecSearch == InitDefault /\ [][NextSearch]_vars

\* len(title) > 200 is an error, len(axiom) > 500 a warning
TitleMax == 200
AxiomMax == 500

\* validate_pattern whose range check reports an error
ValidatePattern_RangeIsError(data) ==
    LET metrics == Get(data, "metrics", EmptyDict)
        out     == /\ Has(metrics, "stability_score")
                   /\ ~Bad(metrics, "stability_score")
                   /\ ~(0 <= metrics["stability_score"] /\ metrics["stability_score"] <= 10)
        errors  == IF out THEN <<"stability_score outside range">> ELSE <<>>
    IN  [valid |-> Len(errors) = 0, errors |-> errors, warnings |-> <<>>]

\* validate_pattern(data): the errors and the warnings in the order the
\* checks append them, each named by its message; a stability_score in
\* tenths, so that [0, 1] is 0..10
ValidatePattern(data) ==
    LET If(c, msg) == IF c THEN <<msg>> ELSE <<>>
        id        == Get(data, "id", <<>>)
        metrics   == Get(data, "metrics", EmptyDict)
        scored    == ~Bad(data, "metrics") /\ Has(metrics, "stability_score")
        errors    ==
            If(Get(data, "id", <<>>) = <<>>, "Missing required field: id")
            \o If(Get(data, "title", <<>>) = <<>>, "Missing required field: title")
            \o If(Get(data, "axiom", <<>>) = <<>>, "Missing required field: axiom")
            \o If(Len(Get(data, "title", <<>>)) > TitleMax, "Title too long")
            \o If(scored /\ Bad(metrics, "stability_score"),
                  "stability_score must be a number")
            \o If(Bad(data, "tags"), "tags must be a list")
        warnings  ==
            If(id # <<>> /\ ~StartsWith(id, IdPrefix), "ID should start with 'WIKAI_'")
            \o If(Len(Get(data, "axiom", <<>>)) > AxiomMax, "Axiom is long")
            \o If(/\ scored
                  /\ ~Bad(metrics, "stability_score")
                  /\ ~(0 <= metrics["stability_score"] /\ metrics["stability_score"] <= 10),
                  "stability_score is outside normal range [0, 1]")
    IN  [valid |-> Len(errors) = 0, errors |-> errors, warnings |-> warnings]

\* validate_pattern(librarian.get(id).to_dict())
ValidateStored(id) ==
    /\ calls < MaxCalls
    /\ calls' = calls + 1
    /\ UNCHANGED inflight
    /\ LibGet(cache, id) # <<>>
    /\ last' = [op |-> "validate_pattern", args |-> id,
                ret |-> <<ValidatePattern(ToDict(LibGet(cache, id)[1]))>>, raised |-> FALSE]
    /\ UNCHANGED storeVars
    /\ UNCHANGED observerVars

\* captures with a stability_score below, inside, on the ends of and above
\* [0, 1], with none and with one that is no number, and with an empty title
ValidateArgs ==
    {Put(BaseArgs, "metrics", DictOf(<< <<"stability_score", s>> >>)) :
        s \in {0 - 1, 0, 5, 10, 15}}
    \cup { BaseArgs,
           Put(BaseArgs, "metrics",
               DictOf(<< <<"stability_score", 0>>, <<"illtyped", {"stability_score"}>> >>)),
           Put(Put(BaseArgs, "title", <<>>), "metrics",
               DictOf(<< <<"stability_score", 15>> >>)),
           Put(Put(BaseArgs, "pattern_id", <<"X", "1">>), "metrics",
               DictOf(<< <<"stability_score", 20>> >>)) }

NextValidate ==
    \/ \E args \in ValidateArgs : Capture(args)
    \/ \E id \in CacheIds(cache) : ValidateStored(id)

\* entries captured with any stability_score and then validated
SpecValidate == InitDefault /\ [][NextValidate]_vars

\* convergence events whose stability is below the threshold, above it and
\* NaN, for two (title, axiom) pairs
NaNEvents ==
    {ConvEvent(<<"T">>, <<"a">>, st) : st \in {NaN, 6, 9}}
    \cup {ConvEvent(<<"U">>, <<"b">>, st) : st \in {NaN, 7}}

NextNaN ==
    \/ \E data \in NaNEvents : Observe(data)
    \/ Reinit

\* an Observer fed with stabilities that are numbers and that are NaN
SpecNaN == Init /\ [][NextNaN]_vars

\* convergence events at or above the threshold for three (title, axiom)
\* pairs, two of which have the ':' of the key in the title or in the axiom
ColonEvents ==
    { ConvEvent(<<"u", ":">>, <<"a">>, 9),
      ConvEvent(<<"u">>, <<":", "a">>, 9),
      ConvEvent(<<"T">>, <<"a">>, 8),
      ConvEvent(<<"T">>, <<"a">>, 6) }

NextColon ==
    \/ \E data \in ColonEvents : Observe(data)
    \/ Reinit

\* an Observer fed with pairs that hold the separator of the key
SpecColon == Init /\ [][NextColon]_vars

\* observer.stability_threshold = v, the caller changing the public attribute
SetThreshold(v) ==
    /\ calls < MaxCalls
    /\ calls' = calls + 1
    /\ UNCHANGED inflight
    /\ stability_threshold' = v
    /\ last' = [op |-> "set_threshold", args |-> v, ret |-> <<>>, raised |-> FALSE]
    /\ UNCHANGED storeVars
    /\ UNCHANGED <<auto_capture, candidates, captured_hashes, stats, event_buffer, seen,
                    promoted>>

\* convergence events for two pairs, the first of which carries a mechanism
\* that json cannot encode
ThresholdEvents ==
    { Put(ConvEvent(<<"T">>, <<"a">>, 6), "mechanism", NotJson),
      ConvEvent(<<"T">>, <<"a">>, 4),
      Put(ConvEvent(<<"t">>, <<"a">>, 9), "mechanism", NotJson),
      ConvEvent(<<"U">>, <<"b">>, 6),
      ConvEvent(<<"U">>, <<"b">>, 4) }

NextThreshold ==
    \/ \E data \in ThresholdEvents : Observe(data)
    \/ \E v \in {StabilityThreshold, 5} : SetThreshold(v)

\* an Observer whose threshold the caller moves between observations
SpecThreshold == Init /\ [][NextThreshold]_vars

NextCount ==
    \/ \E data \in {ConvEvent(<<"T">>, <<"a">>, 6), ConvEvent(<<"T">>, <<"a">>, 9),
                    Put(ConvEvent(<<"t">>, <<"a">>, 9), "mechanism", NotJson),
                    Malformed(<< <<"stability", 0>> >>, {"stability"})} : Observe(data)
    \/ \E data \in ForceEvents
                   \cup {Put(ConvEvent(<<"t">>, <<"a">>, 9), "mechanism", NotJson),
                         Malformed(<< <<"stability", 0>> >>, {"stability"})} :
          ForceCapture(data)
    \/ Reinit

\* an Observer whose observe and force_capture calls succeed and raise
SpecCount == Init /\ [][NextCount]_vars


-----------------------------------------------------------------------------
(* Properties *)

\* the entries of cache c for the (title, axiom) pair
EntriesFor(c, pair) == {i \in DOMAIN c : c[i].title = pair[1] /\ c[i].axiom = pair[2]}

\* C1: under a single writer, the IDs that the capture calls on one Store
\* auto-allocated are pairwise distinct and their numeric suffixes are
\* non-decreasing in call order.
C1_IssuedIdsDistinctAndMonotone ==
    \A i, j \in DOMAIN issued :
        i < j => /\ issued[i] # issued[j]
                 /\ IdNumber(issued[i]) <= IdNumber(issued[j])

\* three auto-allocating captures on one Store, a caller-supplied ID among
\* its entries
C1_Witness == Len(issued) >= 3 /\ Len(cache) > Len(issued)

\* C2: an ID once written to the directory is never returned again by a
\* later capture, also after its file was deleted out-of-band and the Store
\* was re-initialised over the directory.
C2_WrittenIdNeverReturnedAgain ==
    [][(last'.op = "capture" /\ ~last'.raised) => last'.ret[1] \notin written]_vars

\* C3: capture with a missing or empty title or axiom fails with a
\* validation error and leaves the directory and the Store's entries as
\* they were.
C3_InvalidCaptureRejected ==
    [][(last'.op = "capture" /\ InvalidEntry(last'.args))
          => (last'.raised /\ files' = files /\ cache' = cache)]_vars

\* C4: after any sequence of capture, observe and force_capture calls every
\* entry of the Store has a non-empty title and a non-empty axiom.
C4_EntriesHaveTitleAndAxiom ==
    \A i \in DOMAIN cache : Len(cache[i].title) > 0 /\ Len(cache[i].axiom) > 0

\* C5: for an entry e given by the fields capture takes, get(capture(e))
\* returns an entry equal to e in every field (a field e leaves out reads
\* back as its default) except id, timestamp and content_hash.
C5_GetAfterCaptureRoundTrip ==
    (last.op = "capture" /\ ~last.raised) =>
        LET got == LibGet(cache, last.ret[1])
            e   == last.args
        IN  /\ Len(got) = 1
            /\ got[1].title = e["title"]
            /\ got[1].axiom = e["axiom"]
            /\ got[1].origin = Get(e, "origin", "unknown")
            /\ got[1].abstract = Get(e, "abstract", <<>>)
            /\ got[1].mechanism = Get(e, "mechanism", "{}")
            /\ got[1].reasoning_chain = Get(e, "reasoning_chain", <<>>)
            /\ got[1].metrics = Get(e, "metrics", EmptyDict)
            /\ got[1].tags = Get(e, "tags", <<>>)
            /\ got[1].data = EmptyDict

\* a capture of an entry that sets every optional field, into a Store that
\* holds other entries
C5_Witness ==
    /\ last.op = "capture" /\ ~last.raised
    /\ {"origin", "abstract", "mechanism", "reasoning_chain", "metrics", "tags"}
          \subseteq DOMAIN last.args
    /\ Len(cache) >= 2

\* the entries the application saved, with their content_hash
HashedFiles == {n \in DOMAIN files : IsEntryFile(files[n]) /\ Has(files[n].obj, "content_hash")}

\* C6: the stored content_hash is a function of (title, axiom, mechanism)
\* only: two saved entries equal in those three fields have equal hashes,
\* whatever their IDs and other fields are.
C6_HashDeterminedByTriple ==
    \A n, m \in HashedFiles :
        LET p == files[n].obj
            q == files[m].obj
        IN  (p["title"] = q["title"] /\ p["axiom"] = q["axiom"]
             /\ p["mechanism"] = q["mechanism"])
            => p["content_hash"] = q["content_hash"]

\* two saved entries with the same triple, different IDs and different
\* origins
C6_Witness ==
    \E n, m \in HashedFiles :
        LET p == files[n].obj
            q == files[m].obj
        IN  /\ p["title"] = q["title"] /\ p["axiom"] = q["axiom"]
            /\ p["mechanism"] = q["mechanism"]
            /\ p["id"] # q["id"] /\ p["origin"] # q["origin"]

\* C7: whatever valid entry files and malformed or unreadable files the
\* directory holds, loading does not raise and returns exactly the entries
\* of the valid files.
C7_LoadSkipsBadFiles ==
    (last.op = "load_patterns") =>
        /\ ~last.raised
        /\ Range(last.ret) = {files[n].obj : n \in {m \in DOMAIN files : IsEntryFile(files[m])}}

\* entry p satisfies every filter that args supplies
SatisfiesFilters(p, args) ==
    /\ Has(args, "domain") => (Has(p.data, "domain") /\ p.data["domain"] = args["domain"])
    /\ Has(args, "knowledge_type")
          => (Has(p.data, "knowledge_type") /\ p.data["knowledge_type"] = args["knowledge_type"])
    /\ Has(args, "tags") => \E i \in DOMAIN args["tags"] : args["tags"][i] \in Range(p.tags)
    /\ Has(args, "min_stability") => StabilityScore(p) >= args["min_stability"]
    /\ Has(args, "query") => Contains(Searchable(p), Lower(args["query"]))

\* C8: search returns exactly the stored entries that satisfy every supplied
\* filter (domain, knowledge_type, tags, min_stability, text); a filter that
\* is not supplied excludes nothing.
C8_SearchIsIntersection ==
    (last.op = "search" /\ ~Has(last.args, "limit")) =>
        /\ ~last.raised
        /\ Range(last.ret) = {cache[i] : i \in {j \in DOMAIN cache :
                                                  SatisfiesFilters(cache[j], last.args)}}

\* C9: with auto-capture enabled, one observe of a convergence event whose
\* (title, axiom) has not been captured and whose extracted stability is at
\* or above the threshold adds exactly one entry to the Store, with that
\* stability as its metrics.stability_score, and marks the hash as captured.
C9_ObserveAddsExactlyOneEntry ==
    [][(/\ last'.op = "observe"
        /\ auto_capture
        /\ IsConvergenceEvent(last'.args)
        /\ HashPattern(last'.args) \notin captured_hashes
        /\ ExtractStability(last'.args) >= StabilityThreshold)
       => (/\ Len(cache') = Len(cache) + 1
           /\ StabilityScore(cache'[Len(cache')]) = ExtractStability(last'.args)
           /\ HashPattern(last'.args) \in captured_hashes')]_vars

\* every stability of history h is below the threshold
AllBelow(h) == \A i \in DOMAIN h : h[i] < StabilityThreshold

\* an observe step on a convergence event for a pair that the Store holds no
\* entry for and whose earlier observations were all below the threshold
FirstObservationsStep ==
    /\ last'.op = "observe"
    /\ IsConvergenceEvent(last'.args)
    /\ EntriesFor(cache, PairOf(last'.args)) = {}
    /\ AllBelow(Get(seen, PairOf(last'.args), <<>>))

\* what C10 says of the first and the second observation: no entry
NoEntryAfterFirstTwo ==
    (/\ Len(Get(seen, PairOf(last'.args), <<>>)) < 2
     /\ ExtractStability(last'.args) < StabilityThreshold)
    => EntriesFor(cache', PairOf(last'.args)) = {}

\* what C10 says of the third observation: exactly one entry, carrying the
\* running maximum
OneEntryAfterThird ==
    (/\ Len(Get(seen, PairOf(last'.args), <<>>)) = 2
     /\ ExtractStability(last'.args) >= StabilityThreshold)
    => /\ Cardinality(EntriesFor(cache', PairOf(last'.args))) = 1
       /\ \A i \in EntriesFor(cache', PairOf(last'.args)) :
             StabilityScore(cache'[i]) =
                Max(ExtractStability(last'.args),
                    Max(seen[PairOf(last'.args)][1], seen[PairOf(last'.args)][2]))

C11_PromotedPairIsDropped ==
    [][(/\ last'.op = "observe"
        /\ IsConvergenceEvent(last'.args)
        /\ PairOf(last'.args) \in promoted)
       => (/\ ~last'.raised
           /\ cache' = cache
           /\ files' = files
           /\ promoted' = promoted)]_vars

\* C12: observe never raises, whatever the shape of the event.
C12_ObserveNeverRaises == (last.op = "observe") => ~last.raised

\* the entry files of the directory
EntryFiles == {n \in DOMAIN files : IsEntryFile(files[n])}

\* C13: when capture calls run concurrently, their ID-allocation and
\* file-write steps interleaved in any order, no two of them return the same
\* ID and no entry overwrites another: every returned ID has its own file.
C13_ConcurrentCapturesDistinct ==
    /\ \A i, j \in DOMAIN issued : i < j => issued[i] # issued[j]
    /\ Cardinality(EntryFiles) = Len(issued)

\* C14: a capture that fails leaves no partial file behind: the directory,
\* and with it what a later load sees, is as it was before the call.
C14_FailedCaptureLeavesNoFile ==
    [][(last'.op = "capture" /\ last'.raised) => files' = files]_vars

\* C15: force_capture persists exactly one new entry for every event,
\* whatever its type and stability and whatever the threshold and auto_capture
\* are, and the new entry's stability_score is the stability extracted from
\* the event.
C15_ForceCaptureAddsOneEntry ==
    [][(last'.op = "force_capture")
       => (/\ ~last'.raised
           /\ Len(cache') = Len(cache) + 1
           /\ Cardinality(EntryFiles') = Cardinality(EntryFiles) + 1
           /\ StabilityScore(cache'[Len(cache')]) = ExtractStability(last'.args))]_vars

\* C16: the Store is write-once per entry: an entry that get(id) returns is
\* returned with the same fields by every later get(id) on that Store,
\* whatever calls happen in between.
C16_EntriesAreWriteOnce ==
    [][(last'.op # "init")
       => \A i \in DOMAIN cache : LibGet(cache', cache[i].id) = <<cache[i]>>]_vars

\* entry p does not come before entry q in the (timestamp, id) order
NotOlder(p, q) ==
    \/ p.timestamp > q.timestamp
    \/ (p.timestamp = q.timestamp /\ ~StrLess(p.id, q.id))

\* C17: list_all returns every persisted entry exactly once, newest first by
\* (timestamp, id) descending.
C17_ListAllNewestFirst ==
    (last.op = "list_all") =>
        /\ \A i, j \in DOMAIN last.ret : i < j => NotOlder(last.ret[i], last.ret[j])
        /\ \A i, j \in DOMAIN last.ret : i < j => last.ret[i].id # last.ret[j].id
        /\ {ToDict(last.ret[i]) : i \in DOMAIN last.ret} = {files[n].obj : n \in EntryFiles}

\* the JSON objects in the directory: what load_patterns counts as entries
StoredObjects == {n \in DOMAIN files : IsEntryFile(files[n])}

\* the sum of the stability scores of the objects stored under the names in S
RECURSIVE StoredStab(_)
StoredStab(S) ==
    IF S = {} THEN 0
    ELSE LET n == CHOOSE x \in S : TRUE
         IN  StabilityScore(files[n].obj) + StoredStab(S \ {n})

\* C18: get_stats never raises; on a Store with zero entries it returns the
\* empty response, and on a Store with entries its average stability is the
\* sum of the entries' stability scores over the number of entries.
C18_GetStatsWellDefined ==
    (last.op = "get_stats") =>
        /\ ~last.raised
        /\ IF StoredObjects = {}
           THEN last.ret = <<"No entries yet.">>
           ELSE /\ Len(last.ret) = 1
                /\ last.ret[1].total_entries = Cardinality(StoredObjects)
                /\ last.ret[1].avg_stability =
                      <<StoredStab(StoredObjects), Cardinality(StoredObjects)>>


\* an observe call that brings a candidate of the map to the promotion
\* criteria: the event is a convergence event whose hash is a candidate, and
\* counting this observation the candidate has PromoteObservations
\* observations and a running maximum at or above the threshold
BringsToPromotion ==
    /\ last'.op = "observe"
    /\ IsConvergenceEvent(last'.args)
    /\ HashPattern(last'.args) \in DOMAIN candidates
    /\ ShouldPromote(UpsertCandidate(candidates, last'.args,
                                     ExtractStability(last'.args), now'))

\* C19: an observe call that brings a candidate to at least 3 observations
\* with a running maximum stability at or above the threshold captures the
\* candidate into the Store and removes it from the candidate map.
C19_PromotionCapturesAndRemoves ==
    [][BringsToPromotion =>
          /\ stats'.patterns_captured = stats.patterns_captured + 1
          /\ EntriesFor(cache', PairOf(last'.args)) # {}
          /\ HashPattern(last'.args) \notin DOMAIN candidates']_vars

\* C20: after every observe call no hash is both marked captured and a key of
\* the candidate map.
C20_CapturedIsNoCandidate ==
    (last.op = "observe") => captured_hashes \cap DOMAIN candidates = {}


\* the event type of the call's event contains none of the convergence keywords
NoKeywordInType(data) ==
    /\ ~Bad(data, "event")
    /\ \A kw \in ConvergenceKeywords : ~Contains(Lower(EventType(data)), kw)

\* C21: observe on an event whose type contains none of the convergence
\* keywords leaves the Store, the candidate map and the captured-hash set
\* unchanged, whatever stability the event carries.
C21_OtherEventsChangeNothing ==
    [][(last'.op = "observe" /\ NoKeywordInType(last'.args))
          => UNCHANGED <<files, cache, next_id, candidates, captured_hashes>>]_vars

\* an event of another type with a stability at or above the threshold was
\* observed by an Observer that holds an entry
C21_Witness ==
    /\ last.op = "observe"
    /\ NoKeywordInType(last.args)
    /\ ~last.raised
    /\ ExtractStability(last.args) >= stability_threshold
    /\ Len(cache) > 0


\* C22: with auto-capture disabled no observe call adds an entry to the
\* Store, whatever the stabilities and repetitions.
C22_NoCaptureWithoutAutoCapture ==
    [][(last'.op = "observe" /\ ~auto_capture) => (cache' = cache /\ files' = files)]_vars

\* with auto-capture disabled a pair has been observed three times as a
\* convergence event, below the threshold and at or above it
C22_Witness ==
    /\ ~auto_capture
    /\ last.op = "observe"
    /\ \E pair \in DOMAIN seen :
          /\ Len(seen[pair]) >= PromoteObservations
          /\ \E i \in DOMAIN seen[pair] : seen[pair][i] < stability_threshold
          /\ \E i \in DOMAIN seen[pair] : seen[pair][i] >= stability_threshold


\* the stability fields in the order of the claim; a field of two names is
\* the second name inside the dict under the first
StabilityFields ==
    << <<"stability">>, <<"stability_score">>, <<"metrics", "stability">>,
       <<"metrics", "stability_score">>, <<"health_score">>, <<"coherence">>,
       <<"components", "coherence">>, <<"components", "stability">>, <<"loss">> >>

\* the field is present in the event
FieldPresent(data, f) ==
    IF Len(f) = 1 THEN f[1] \in DOMAIN data
    ELSE /\ f[1] \in DOMAIN data
         /\ ~Bad(data, f[1])
         /\ f[2] \in DOMAIN data[f[1]]

\* the stability the field stands for: its value, and 1 - loss for loss
FieldStability(data, f) ==
    IF f = <<"loss">> THEN 10 - data["loss"]
    ELSE IF Len(f) = 1 THEN data[f[1]]
    ELSE data[f[1]][f[2]]

\* C23: the extracted stability is that of the first field present, in the
\* order stability, stability_score, metrics.stability,
\* metrics.stability_score, health_score, coherence, components.coherence,
\* components.stability, 1 - loss; it is 0.0 when none is present.
C23_FirstPresentFieldWins ==
    (last.op = "_extract_stability" /\ ~last.raised) =>
        LET present == {i \in DOMAIN StabilityFields : FieldPresent(last.args, StabilityFields[i])}
        IN  IF present = {} THEN last.ret = <<0>>
            ELSE \E i \in present :
                    /\ \A j \in present : i <= j
                    /\ last.ret = <<FieldStability(last.args, StabilityFields[i])>>

\* the extraction returned the health_score of an event that also holds
\* fields of lower rank, and whose metrics hold no stability
C23_Witness ==
    /\ last.op = "_extract_stability"
    /\ ~last.raised
    /\ last.ret = <<5>>
    /\ "metrics" \in DOMAIN last.args
    /\ "coherence" \in DOMAIN last.args
    /\ "loss" \in DOMAIN last.args


\* the stabilities below the threshold among the convergence observations of
\* the candidate's pair, as positions in the history of the pair
BelowThreshold(c) ==
    LET obs == Get(seen, PairOf(c.data), <<>>)
    IN  {i \in DOMAIN obs : obs[i] < stability_threshold}

\* C24: for each candidate in the map, observations is the number of
\* below-threshold convergence observations of its hash since the candidate
\* was created, max_stability is the maximum stability among them, and
\* first_seen is not later than last_seen.
C24_CandidateCountsObservations ==
    \A h \in DOMAIN candidates :
        LET c   == candidates[h]
            obs == Get(seen, PairOf(c.data), <<>>)
        IN  /\ c.observations = Cardinality(BelowThreshold(c))
            /\ \E i \in BelowThreshold(c) : c.max_stability = obs[i]
            /\ \A i \in BelowThreshold(c) : obs[i] <= c.max_stability
            /\ c.first_seen <= c.last_seen


\* C25: the event buffer never holds more than its capacity; it holds the
\* most recent min(n, capacity) of the n events recorded, in arrival order.
C25_BufferHoldsMostRecent ==
    LET n == stats.events_observed
        k == Min(n, BufferCapacity)
    IN  /\ Len(event_buffer) <= BufferCapacity
        /\ event_buffer = [i \in 1..k |-> n - k + i]

\* more events than the capacity have been observed
C25_Witness ==
    /\ last.op = "observe"
    /\ stats.events_observed > BufferCapacity
    /\ Len(event_buffer) = BufferCapacity


\* the entries of cache c that pass the filters of args, in the order of c
MatchingInOrder(c, args) == SelectSeq(c, LAMBDA p : SearchKeeps(p, args))

\* C26: search returns at most limit entries for every limit >= 0, limit = 0
\* included: the first limit matching entries in the Store's order, taken
\* after all filters have been applied.
C26_LimitTruncates ==
    (last.op = "search" /\ ~last.raised) =>
        LET matching == MatchingInOrder(cache, last.args)
            limit    == Get(last.args, "limit", DefaultLimit)
        IN  /\ Len(last.ret) <= limit
            /\ last.ret = SubSeq(matching, 1, Min(limit, Len(matching)))


RECURSIVE JoinQuoted(_)
\* the items of str(tags): each tag in quotes, separated by ", "
JoinQuoted(tags) ==
    IF Len(tags) = 0 THEN <<>>
    ELSE <<"'">> \o Head(tags) \o <<"'">>
         \o (IF Len(tags) = 1 THEN <<>> ELSE <<",", " ">>) \o JoinQuoted(Tail(tags))

\* the serialized tags of an entry
SerializedTags(p) == <<"[">> \o JoinQuoted(p.tags) \o <<"]">>

\* the serialized mechanism of an entry: {} or {"m": 1}
SerializedMechanism(p) ==
    IF p.mechanism = "{}" THEN <<"{", "}">>
    ELSE <<"{", "\"", "m", "\"", ":", " ", "1", "}">>

\* the lower-cased query q is a substring of a lower-cased text field of p
QueryInField(p, q) ==
    \/ Contains(Lower(p.title), q)
    \/ Contains(Lower(p.axiom), q)
    \/ Contains(Lower(p.abstract), q)
    \/ Contains(Lower(SerializedTags(p)), q)
    \/ Contains(Lower(SerializedMechanism(p)), q)

\* C27: a text query matches an entry exactly when the lower-cased query is a
\* substring of the lower-cased title, axiom, abstract, or serialized tags or
\* mechanism of the entry.
C27_QueryMatchesFields ==
    (last.op = "search" /\ ~last.raised /\ Len(Get(last.args, "query", <<>>)) > 0
        /\ ~Has(last.args, "limit")) =>
        \A i \in DOMAIN cache :
            (TagFilterPasses(cache[i], last.args) /\ StabilityFilterPasses(cache[i], last.args))
               => (cache[i] \in Range(last.ret)
                      <=> QueryInField(cache[i], Lower(last.args["query"])))


\* C28: after a rescan the Store's in-memory view holds exactly the entries
\* of the readable files of the directory: an entry whose file was deleted is
\* no longer returned by get or list_all, one added out-of-band is.
C28_RescanMirrorsDirectory ==
    (last.op = "rescan") =>
        /\ Range(last.ret) = {FromDict(files[n].obj) : n \in EntryFiles}
        /\ \A id \in written :
              (LibGet(cache, id) # <<>>) <=> (\E n \in EntryFiles : files[n].obj.id = id)


\* the ways to read "the same domain" when an entry has no domain: an absent
\* field is the same as nothing, as another absent field, or as an empty one
AbsentReadings == {"nothing", "absent", "empty"}

\* entries a and b have the same field f, under reading r of an absent field
SameField(a, b, f, r) ==
    IF Has(a, f) /\ Has(b, f) THEN a[f] = b[f]
    ELSE IF r = "nothing" THEN FALSE
    ELSE IF r = "absent" THEN ~Has(a, f) /\ ~Has(b, f)
    ELSE Get(a, f, "") = Get(b, f, "")

\* the relatedness score of entries a and b as the claim states it
ClaimedScore(a, b, r) ==
    (IF \/ Get(b, "id", <<>>) \in Range(Get(a, "related_entries", <<>>))
        \/ Get(a, "id", <<>>) \in Range(Get(b, "related_entries", <<>>))
     THEN 10 ELSE 0)
    + 2 * Cardinality({Lower(t) : t \in Range(Get(a, "tags", <<>>))}
                        \cap {Lower(t) : t \in Range(Get(b, "tags", <<>>))})
    + (IF SameField(a, b, "domain", r) THEN 1 ELSE 0)
    + (IF SameField(a, b, "knowledge_type", r) THEN 1 ELSE 0)

RECURSIVE Ranked(_, _, _, _)
\* the entries at the positions idx of patterns with their scores against
\* target: highest score first, equal scores in the order of patterns
Ranked(patterns, target, idx, r) ==
    IF idx = {} THEN <<>>
    ELSE LET sc(i) == ClaimedScore(target, patterns[i], r)
             best  == CHOOSE i \in idx :
                         \A j \in idx : sc(i) > sc(j) \/ (sc(i) = sc(j) /\ i <= j)
         IN  <<[id |-> Get(patterns[best], "id", <<>>), score |-> sc(best)]>>
             \o Ranked(patterns, target, idx \ {best}, r)

\* what the claim says related(entry_id) returns for the loaded patterns
ClaimedRelated(patterns, entry_id, r) ==
    LET hits == {i \in DOMAIN patterns : Get(patterns[i], "id", <<>>) = entry_id}
    IN  IF hits = {} THEN <<>>
        ELSE LET target == patterns[CHOOSE i \in hits : \A j \in hits : i <= j]
                 others == {i \in DOMAIN patterns \ hits :
                              ClaimedScore(target, patterns[i], r) > 0}
             IN  Prefix(Ranked(patterns, target, others, r), RelatedMax)

\* C29: related(entry_id) scores every other entry as +10 if either entry
\* lists the other in related_entries, +2 per tag shared case-insensitively,
\* +1 for the same domain and +1 for the same knowledge_type; it leaves out
\* the entries scoring 0, sorts by score descending with ties in Store order,
\* and returns at most 10. An absent domain or knowledge_type may be read
\* in any one of the three ways.
C29_RelatedScores ==
    (last.op = "related" /\ ~last.raised) =>
        \E r \in AbsentReadings : \E patterns \in LoadOutcomes(files) :
            last.ret = ClaimedRelated(patterns, last.args, r)


\* C30: the relatedness score is symmetric: for two distinct stored entries
\* a and b, the score of b in related(a) equals the score of a in
\* related(b), also when domain or knowledge_type is absent or empty on
\* either side.
C30_ScoreSymmetric ==
    (last.op = "related" /\ ~last.raised) =>
        \A n \in EntryFiles : \A m \in EntryFiles :
            LET a == files[n].obj
                b == files[m].obj
            IN  (a.id = last.args /\ b.id # a.id) =>
                    RelatedScore(a, a.id, b) = RelatedScore(b, b.id, a)

\* the metrics hold a numeric stability_score outside [0, 1]
ScoreOutOfRange(metrics) ==
    /\ Has(metrics, "stability_score")
    /\ ~Bad(metrics, "stability_score")
    /\ (metrics["stability_score"] < 0 \/ metrics["stability_score"] > 10)

\* C31: a metrics.stability_score outside [0, 1] only produces a warning:
\* capture accepts and stores the entry, and validate_pattern warns about the
\* score, reports no error about it and says valid exactly when the entry
\* has an id, a title and an axiom.
C31_OutOfRangeOnlyWarns ==
    /\ (/\ last.op = "capture"
        /\ ~CaptureRaises(last.args)
        /\ ScoreOutOfRange(Get(last.args, "metrics", EmptyDict))) =>
            /\ ~last.raised
            /\ LibGet(cache, last.ret[1]) # <<>>
            /\ LibGet(cache, last.ret[1])[1].metrics = last.args["metrics"]
            /\ \E n \in EntryFiles :
                  /\ files[n].obj.id = last.ret[1]
                  /\ files[n].obj.metrics = last.args["metrics"]
    /\ (/\ last.op = "validate_pattern"
        /\ ScoreOutOfRange(LibGet(cache, last.args)[1].metrics)) =>
            LET p == LibGet(cache, last.args)[1]
                r == last.ret[1]
            IN  /\ r.valid <=> (p.id # <<>> /\ p.title # <<>> /\ p.axiom # <<>>)
                /\ r.valid <=> (r.errors = <<>>)
                /\ Range(r.errors) \subseteq {"Missing required field: id",
                                              "Missing required field: title",
                                              "Missing required field: axiom"}
                /\ "stability_score is outside normal range [0, 1]" \in Range(r.warnings)

\* an entry captured with stability_score 1.5 has been validated as valid
C31_Witness ==
    /\ last.op = "validate_pattern"
    /\ LibGet(cache, last.args) # <<>>
    /\ LibGet(cache, last.args)[1].metrics = DictOf(<< <<"stability_score", 15>> >>)
    /\ LibGet(cache, last.args)[1].title # <<>>
    /\ last.ret[1].valid

\* C32 as stated: with a fixed threshold every candidate has a max_stability
\* strictly below the threshold, and stats.candidates_promoted stays 0.
C32_CandidatesBelowThreshold_Original ==
    /\ stability_threshold = StabilityThreshold
    /\ \A h \in DOMAIN candidates :
          /\ candidates[h].max_stability # NaN
          /\ candidates[h].max_stability < stability_threshold
    /\ stats.candidates_promoted = 0

\* C32: with a fixed threshold no candidate has a max_stability that is
\* greater than or equal to the threshold (it is below it or it is NaN), so
\* the three-observation promotion branch is never taken and
\* stats.candidates_promoted stays 0.
C32_CandidatesBelowThreshold ==
    /\ stability_threshold = StabilityThreshold
    /\ \A h \in DOMAIN candidates :
          /\ ~FloatGe(candidates[h].max_stability, stability_threshold)
          /\ ~ShouldPromote(candidates[h])
    /\ stats.candidates_promoted = 0

\* a candidate observed three times, first with NaN, is still a candidate
C32_Witness ==
    \E h \in DOMAIN candidates :
        /\ candidates[h].observations >= PromoteObservations
        /\ candidates[h].max_stability = NaN

\* the entries of cache c that force_capture wrote for the (title, axiom)
\* pair: force_capture gives its entry the stability score as only metric
ForcedFor(c, pair) ==
    {i \in EntriesFor(c, pair) :
        Has(c[i].metrics, "stability_score") /\ ~Has(c[i].metrics, "fitness_delta")}

\* C33: after force_capture has persisted a (title, axiom) pair, a later
\* observe of a convergence event with the same pair adds no second entry
\* for that pair to the Store.
C33_ForcedPairNotCapturedAgain ==
    [][(/\ last'.op = "observe"
        /\ IsConvergenceEvent(last'.args)
        /\ ForcedFor(cache, PairOf(last'.args)) # {})
       => Cardinality(EntriesFor(cache', PairOf(last'.args)))
              = Cardinality(EntriesFor(cache, PairOf(last'.args)))]_vars

\* C34: an Observer constructed over a storage directory that already holds
\* an entry for some (title, axiom) does not capture that pair again: the
\* observe that follows the construction adds no entry for a pair that the
\* directory held.
C34_PersistedPairNotCapturedAgain ==
    [][(/\ last.op = "init"
        /\ last'.op = "observe"
        /\ IsConvergenceEvent(last'.args)
        /\ EntriesFor(last.ret, PairOf(last'.args)) # {})
       => Cardinality(EntriesFor(cache', PairOf(last'.args)))
              = Cardinality(EntriesFor(last.ret, PairOf(last'.args)))]_vars

\* C35: two convergence events with different (title, axiom) pairs never
\* share a duplicate-detection key, so capturing one never suppresses the
\* other, also when a title or an axiom contains the ':' of the key: with
\* auto-capture enabled, an observe at or above the threshold of a pair that
\* this Observer has not captured captures it.
C35_OtherPairNotSuppressed ==
    [][(/\ last'.op = "observe"
        /\ ~last'.raised
        /\ auto_capture
        /\ IsConvergenceEvent(last'.args)
        /\ ExtractStability(last'.args) >= StabilityThreshold
        /\ PairOf(last'.args) \notin promoted)
       => (/\ PairOf(last'.args) \in promoted'
           /\ \E i \in DOMAIN cache' : <<cache'[i].title, cache'[i].axiom>> = PairOf(last'.args))]_vars

\* C36: an ID auto-allocated by capture is never equal to the ID of an entry
\* already in the Store, including entries that earlier capture calls stored
\* under a caller-supplied pattern_id.
C36_AllocatedIdIsFresh ==
    [][(/\ last'.op = "capture"
        /\ ~last'.raised
        /\ ~Has(last'.args, "pattern_id"))
       => (/\ last'.ret[1] \notin CacheIds(cache)
           /\ \A n \in EntryFiles : files[n].obj.id # last'.ret[1])]_vars

\* C37: a Store re-initialised over the directory written by a live Store
\* returns, for every ID, an entry equal in every field (id, title, axiom,
\* origin, timestamp, abstract, mechanism, reasoning_chain, metrics, tags,
\* data) to the one the live Store returns for that ID.
C37_ReloadedStoreEqualsLive ==
    [][(/\ last'.op = "init"
        /\ \A n \in DOMAIN files : IsEntryFile(files[n])
        /\ CacheIds(cache) = {files[n].obj.id : n \in DOMAIN files}
        /\ Cardinality(DOMAIN files) = Len(cache))
       => \A id \in CacheIds(cache) :
             \A k \in PatternKeys : LibGet(cache', id)[1][k] = LibGet(cache, id)[1][k]]_vars

\* C38: if Store.capture raises while the Observer is capturing a pattern
\* (the call has allocated its ID and raised), the Observer's state is as
\* before the attempt: the hash is not marked captured,
\* stats.patterns_captured and stats.candidates_promoted are not
\* incremented, and every candidate stays in the candidate map.
C38_FailedCaptureLeavesObserver ==
    [][(/\ last'.op = "observe"
        /\ last'.raised
        /\ next_id' # next_id)
       => (/\ captured_hashes' = captured_hashes
           /\ stats'.patterns_captured = stats.patterns_captured
           /\ stats'.candidates_promoted = stats.candidates_promoted
           /\ DOMAIN candidates \subseteq DOMAIN candidates'
           /\ promoted' = promoted)]_vars

\* an observe has raised inside Store.capture while promoting a candidate
\* seen three times, which is still a candidate and not marked captured
C38_Witness ==
    /\ last.op = "observe"
    /\ last.raised
    /\ HashPattern(last.args) \in DOMAIN candidates
    /\ ShouldPromote(candidates[HashPattern(last.args)])
    /\ HashPattern(last.args) \notin captured_hashes
    /\ stats.patterns_captured = 0
    /\ \E n \in DOMAIN files : files[n].kind = "partial"

\* C39: after any sequence of observe and force_capture calls,
\* stats.patterns_captured equals the number of entries this Observer has
\* written to the Store.
C39_CapturedCountsWrittenEntries ==
    /\ stats.patterns_captured = Len(issued)
    /\ \A i \in DOMAIN issued : \E n \in EntryFiles : files[n].obj.id = issued[i]
    /\ \A i \in DOMAIN issued : \A j \in DOMAIN issued : issued[i] = issued[j] => i = j

\* the Observer has written an entry by observe and one by force_capture,
\* and a call of it has raised inside Store.capture
C39_Witness ==
    /\ stats.patterns_captured >= 2
    /\ \E i \in DOMAIN cache : Has(cache[i].metrics, "fitness_delta")
    /\ ForcedFor(cache, <<<<"T">>, <<"a">>>>) # {}
    /\ last.raised
    /\ \E n \in DOMAIN files : files[n].kind = "partial"

=========================================================================
